---------------------------- MODULE Spec2Model ----------------------------
(***************************************************************************)
(* fileseeker: a read-only WebDAV filesystem (StatikFS) backed by remote   *)
(* statik.json manifests.  The model covers the manifest cache             *)
(* (statikCache.Get), path resolution (StatikFS.OpenFile / Stat), the      *)
(* always-failing write operations, and the two file handle variants       *)
(* (LazyMemFile, LinkFile) with the LRU cache of fetched file bodies.      *)
(*                                                                         *)
(* Strings that the code takes apart (paths, names) are sequences of       *)
(* one-character strings, so that path.Dir, path.Base and path.Clean are   *)
(* computed the way the Go library computes them.  Time is counted in      *)
(* minutes.                                                                *)
(***************************************************************************)
EXTENDS Integers, Sequences, FiniteSets, TLC

VARIABLES
    cache,      \* statikCache.cache: directory path -> [statik, exp]
    now,        \* the wall clock read by time.Now()
    openFiles,  \* StatikFS.openFiles: LRU list of [key, value], oldest first
    handles,    \* the webdav.File values the callers still hold, by slot
    hist,       \* per slot: content fetches and populations of its handle
    last,       \* the last completed call: operation, arguments, result
    lruSize,    \* the size openFiles was built with by lru.New
    loading,    \* per slot: the Read or Seek in progress on its handle
    calls,      \* per goroutine: the statikCache.Get in progress
    cacheLock,  \* statikCache.cacheLock: who holds it for reading, writing
    otel        \* per SetupOTelSDK call: its shutdownFuncs and its progress

vars ==
    <<cache, now, openFiles, handles, hist, last, lruSize, loading, calls,
      cacheLock, otel>>

\* what the calls of one caller at a time leave alone
others == <<lruSize, loading, calls, cacheLock, otel>>

-----------------------------------------------------------------------------
(* Bounds of the model *)

MaxHandles == 1         \* handles a caller holds at the same time
MaxFetches == 2         \* content fetches counted for one handle
MaxReadLen == 2         \* len(p) of a Read is 0..MaxReadLen
MaxSeekOffset == 1      \* Seek offsets are -MaxSeekOffset..MaxSeekOffset
CacheCap == 2           \* size of the LRU of a mount built with a small one
MaxSetups == 2          \* calls of SetupOTelSDK, each with its own closure
MaxShutdowns == 2       \* calls a caller makes of one returned shutdown

(* Program constants *)

StatikCachingTime == 5  \* minutes a statik.json stays cached
fileCacheSize == 100    \* capacity of the LRU of file bodies
O_RDONLY == 0
O_WRONLY == 1
O_RDWR == 2

OpenFlags == {O_RDONLY, O_WRONLY, O_RDWR}

\* the moments at which the clock is read: the start, the last minute
\* before an entry cached at the start expires, the minute it expires, and
\* the last minute before an entry cached at that expiry expires
TimePoints ==
    {0, StatikCachingTime - 1, StatikCachingTime, 2 * StatikCachingTime - 1}

LaterPoints(t) == {p \in TimePoints : p > t}

\* a fetch ends in the minute it started or at the next moment of TimePoints
Delays(t) ==
    {0} \cup {p - t : p \in {q \in LaterPoints(t) :
                                \A r \in LaterPoints(t) : q <= r}}

-----------------------------------------------------------------------------
(* Go's package path on slash-separated strings *)

Slash == "/"
Dot == <<".">>
DotDot == <<".", ".">>

HasSuffixSlash(s) == Len(s) > 0 /\ s[Len(s)] = Slash

TrimPrefixSlash(s) == IF Len(s) > 0 /\ s[1] = Slash THEN Tail(s) ELSE s

\* index of the last "/" of s, 0 when there is none (strings.LastIndex + 1)
LastSlash(s) ==
    LET idx == {i \in 1..Len(s) : s[i] = Slash}
    IN  IF idx = {} THEN 0 ELSE CHOOSE i \in idx : \A j \in idx : j <= i

FirstSlash(s) ==
    LET idx == {i \in 1..Len(s) : s[i] = Slash}
    IN  IF idx = {} THEN 0 ELSE CHOOSE i \in idx : \A j \in idx : i <= j

\* the "/"-separated elements of s, empty ones included
RECURSIVE SplitSlash(_)
SplitSlash(s) ==
    LET i == FirstSlash(s)
    IN  IF i = 0 THEN <<s>>
        ELSE <<SubSeq(s, 1, i - 1)>> \o SplitSlash(SubSeq(s, i + 1, Len(s)))

RECURSIVE JoinSlash(_)
JoinSlash(elems) ==
    IF elems = <<>> THEN <<>>
    ELSE IF Len(elems) = 1 THEN elems[1]
    ELSE elems[1] \o <<Slash>> \o JoinSlash(Tail(elems))

\* path.Clean's pass over the elements: out is the cleaned prefix
RECURSIVE CleanElems(_, _, _)
CleanElems(elems, out, rooted) ==
    IF elems = <<>> THEN out
    ELSE LET e == elems[1]
             rest == Tail(elems)
         IN  IF e = <<>> \/ e = Dot THEN CleanElems(rest, out, rooted)
             ELSE IF e = DotDot
                  THEN IF out # <<>> /\ out[Len(out)] # DotDot
                       THEN CleanElems(rest, SubSeq(out, 1, Len(out) - 1), rooted)
                       ELSE IF rooted THEN CleanElems(rest, out, rooted)
                       ELSE CleanElems(rest, Append(out, e), rooted)
             ELSE CleanElems(rest, Append(out, e), rooted)

Clean(s) ==
    IF s = <<>> THEN Dot
    ELSE LET rooted == s[1] = Slash
             out == JoinSlash(CleanElems(SplitSlash(s), <<>>, rooted))
         IN  IF rooted THEN <<Slash>> \o out
             ELSE IF out = <<>> THEN Dot ELSE out

\* path.Dir: everything up to the last slash, cleaned
Dir(s) == Clean(SubSeq(s, 1, LastSlash(s)))

RECURSIVE StripTrailingSlashes(_)
StripTrailingSlashes(s) ==
    IF HasSuffixSlash(s) THEN StripTrailingSlashes(SubSeq(s, 1, Len(s) - 1))
    ELSE s

\* path.Base: the last element, "." for the empty path, "/" for slashes only
Base(s) ==
    IF s = <<>> THEN Dot
    ELSE LET t == StripTrailingSlashes(s)
             u == SubSeq(t, LastSlash(t) + 1, Len(t))
         IN  IF u = <<>> THEN <<Slash>> ELSE u


-----------------------------------------------------------------------------
(* The manifest document and its summaries *)

LinkMime == <<"text/statik-link">>

\* StatikFileInfo
FileInfo(name, url, mime, size, time) ==
    [NameRaw |-> name, Url |-> url, Mime |-> mime, SizeRaw |-> size,
     Time |-> time]

\* StatikDirInfo
DirInfo(name, url, size, time) ==
    [NameRaw |-> name, Url |-> url, SizeRaw |-> size, Time |-> time]

\* Statik: its own StatikDirInfo, then the two ordered child lists
Statik(info, dirs, files) ==
    [Info |-> info, Directories |-> dirs, Files |-> files]

\* Statik{}, the zero value the code returns next to an error
ZeroStatik == Statik(DirInfo(<<>>, "", "", 0), <<>>, <<>>)

\* the manifests a remote server may hold.  ManifestA: the name a is in both
\* lists and twice among the files, c has an empty tag.  ManifestB: a is
\* only among the directories, b is a link file and a directory, c a file.
ManifestA ==
    Statik(DirInfo(<<"r">>, "u0", "4 kB", 1),
           <<DirInfo(<<"a">>, "u0/a", "2 kB", 1)>>,
           <<FileInfo(<<"a">>, "u1", <<"text/plain">>, "1.5 kB", 2),
             FileInfo(<<"a">>, "u2", LinkMime, "0 B", 3),
             FileInfo(<<"c">>, "u1", <<>>, "2 kiB", 3)>>)

ManifestB ==
    Statik(DirInfo(<<"r">>, "u0", "4 kB", 4),
           <<DirInfo(<<"a">>, "u0/a", "2 kB", 4),
             DirInfo(<<"b">>, "u0/b", "1 XB", 4)>>,
           <<FileInfo(<<"b">>, "u2", LinkMime, "0 B", 5),
             FileInfo(<<"c">>, "u1", <<"text/plain">>, "1 B", 5)>>)

Manifests == {ManifestA, ManifestB}

\* what one GET of <baseUrl><path>/statik.json can end in: httpGet fails,
\* the body does not decode, Body.Close fails, or a manifest is decoded
ManifestResponses ==
    {[kind |-> k, statik |-> ZeroStatik] : k \in {"getErr", "decodeErr", "closeErr"}}
    \cup {[kind |-> "ok", statik |-> m] : m \in Manifests}

GetErrResponse == [kind |-> "getErr", statik |-> ZeroStatik]

\* the next answer of the remote; a request beyond the listed answers fails
NextResp(resps) == IF resps = <<>> THEN GetErrResponse ELSE Head(resps)

RestResps(resps) == IF resps = <<>> THEN <<>> ELSE Tail(resps)

\* the paths the callers resolve: the root, a first-level name that is a
\* file or a directory, a directory request, a missing name
Names == { <<"/">>, <<"/", "a">>, <<"/", "a", "/">>, <<"/", "b">> }

\* further paths: empty, relative, doubled slash, second level, dot-dot
OddNames ==
    { <<>>, <<"a">>, <<"/", "/", "a", "/">>, <<"/", "a", "/", "b">>,
      <<"/", ".", ".", "/", "a">> }

AllNames == Names \cup OddNames

\* the arguments of Mkdir, RemoveAll and Rename
WriteNames == { <<"/", "a">>, <<"/", "x">> }

\* path.Dir and path.Base of the paths a call can meet (the requested ones
\* and the ones OpenFile re-resolves to), computed once
LeafNames ==
    UNION {{m.Directories[i].NameRaw : i \in 1..Len(m.Directories)} :
              m \in Manifests}

FileNames == { <<"/">>, <<"/", "b">>, <<"/", "c">> }

KnownPaths ==
    AllNames \cup FileNames \cup {Dir(n) \o <<Slash>> \o l \o <<Slash>> :
                       n \in AllNames, l \in LeafNames}

DirTable == [n \in KnownPaths |-> Dir(n)]

BaseTable == [n \in KnownPaths |-> Base(n)]

PathDir(name) == IF name \in KnownPaths THEN DirTable[name] ELSE Dir(name)

PathBase(name) == IF name \in KnownPaths THEN BaseTable[name] ELSE Base(name)

-----------------------------------------------------------------------------
(* statikCache.Get, run without interleaving: the map read, the clock      *)
(* check, the delete of an expired entry, the fetch (which lasts dt) and   *)
(* the insert.  gets is the trace of the call: the path, whether the span  *)
(* event "cache expired" was recorded, and how the Get ended ("hit", or    *)
(* the kind of the remote's answer).                                       *)

MapRemove(m, k) == [x \in DOMAIN m \ {k} |-> m[x]]

MapPut(m, k, v) == [x \in DOMAIN m \cup {k} |-> IF x = k THEN v ELSE m[x]]
\* a hit only while the entry has more than a minute left
CacheHitEarly(c, path, t) == path \in DOMAIN c /\ c[path].exp > t + 1

\* contentOk && cache.exp.After(time.Now())
CacheHit(c, path, t) == path \in DOMAIN c /\ c[path].exp > t
\* the expiry counted from the clock check instead of the insert
NewExpiryFromCheck(tCheck, tInsert) == tCheck + StatikCachingTime

\* time.Now().Add(StatikCachingTime) at the insert; the clock was checked
\* at tCheck and the insert happens at tInsert
NewExpiry(tCheck, tInsert) == tInsert + StatikCachingTime

GetTrace(path, expired, outcome) ==
    <<[path |-> path, expired |-> expired, outcome |-> outcome]>>

\* a Get that caches an empty manifest when the fetch fails
GetCacheFailure(c, t, path, resp, dt) ==
    IF CacheHit(c, path, t)
    THEN [statik |-> c[path].statik, err |-> "nil", cache |-> c, now |-> t,
          gets |-> GetTrace(path, FALSE, "hit")]
    ELSE LET contentOk == path \in DOMAIN c
             c1 == IF contentOk THEN MapRemove(c, path) ELSE c
             t2 == t + dt
             trace == GetTrace(path, contentOk, resp.kind)
             failed == MapPut(c1, path, [statik |-> ZeroStatik,
                                         exp |-> NewExpiry(t, t2)])
         IN  IF resp.kind = "getErr"
             THEN [statik |-> ZeroStatik, err |-> "error getting statik.json",
                   cache |-> failed, now |-> t2, gets |-> trace]
             ELSE IF resp.kind = "decodeErr"
             THEN [statik |-> ZeroStatik, err |-> "error decoding statik.json",
                   cache |-> failed, now |-> t2, gets |-> trace]
             ELSE IF resp.kind = "closeErr"
             THEN [statik |-> ZeroStatik, err |-> "error closing response body",
                   cache |-> failed, now |-> t2, gets |-> trace]
             ELSE [statik |-> resp.statik, err |-> "nil",
                   cache |-> MapPut(c1, path,
                                    [statik |-> resp.statik,
                                     exp |-> NewExpiry(t, t2)]),
                   now |-> t2, gets |-> trace]

Get(c, t, path, resp, dt) ==
    IF CacheHit(c, path, t)
    THEN [statik |-> c[path].statik, err |-> "nil", cache |-> c, now |-> t,
          gets |-> GetTrace(path, FALSE, "hit")]
    ELSE LET contentOk == path \in DOMAIN c
             c1 == IF contentOk THEN MapRemove(c, path) ELSE c
             t2 == t + dt
             trace == GetTrace(path, contentOk, resp.kind)
         IN  IF resp.kind = "getErr"
             THEN [statik |-> ZeroStatik, err |-> "error getting statik.json",
                   cache |-> c1, now |-> t2, gets |-> trace]
             ELSE IF resp.kind = "decodeErr"
             THEN [statik |-> ZeroStatik, err |-> "error decoding statik.json",
                   cache |-> c1, now |-> t2, gets |-> trace]
             ELSE IF resp.kind = "closeErr"
             THEN [statik |-> ZeroStatik, err |-> "error closing response body",
                   cache |-> c1, now |-> t2, gets |-> trace]
             ELSE [statik |-> resp.statik, err |-> "nil",
                   cache |-> MapPut(c1, path,
                                    [statik |-> resp.statik,
                                     exp |-> NewExpiry(t, t2)]),
                   now |-> t2, gets |-> trace]

\* the Gets of a trace that requested a statik.json from the remote
IsFetch(g) == g.outcome # "hit"

Fetches(gets) == SelectSeq(gets, IsFetch)

-----------------------------------------------------------------------------
(* File handles *)

\* *bytes.Reader: the bytes s and the read index i; nil before population
NilReader == [nil |-> TRUE, s |-> <<>>, i |-> 0]

NewReader(b) == [nil |-> FALSE, s |-> b, i |-> 0]

\* fmt.Sprintf(linkFileTemplate, name, url); every fixed stretch of the
\* template is one element of the body
LinkContent(name, url) ==
    <<"[Desktop Entry]\nType=Link\nVersion=1.0\nName=">> \o name
    \o <<"\nURL=", url, "\nIcon=text-html\n">>

DesktopSuffix == <<".", "d", "e", "s", "k", "t", "o", "p">>

\* a link handle that keeps the summary as it is in the manifest
NewLinkFileSameInfo(info) ==
    [type |-> "LinkFile", i |-> info,
     r |-> NewReader(LinkContent(info.NameRaw, info.Url))]

NewLinkFile(info) ==
    LET content == LinkContent(info.NameRaw, info.Url)
        i == [info EXCEPT !.SizeRaw = ToString(Len(content)),
                          !.NameRaw = info.NameRaw \o DesktopSuffix]
    IN  [type |-> "LinkFile", i |-> i, r |-> NewReader(content)]

\* a handle that is given a reader when it is made
NewLoadedMemFile(info, file) ==
    [type |-> "LazyMemFile", info |-> info, populate |-> file,
     reader |-> NewReader(<<>>)]

\* populate is the closure of createFilePopulate over file
NewLazyMemFile(info, file) ==
    [type |-> "LazyMemFile", info |-> info, populate |-> file,
     reader |-> NilReader]
\* a summary without a tag is taken for a link as well
getFileLinkOnEmpty(file) ==
    IF file.Mime = LinkMime \/ file.Mime = <<>> THEN NewLinkFile(file)
    ELSE NewLazyMemFile(file, file)

\* every file summary becomes a LazyMemFile
getFileAlwaysLazy(file) == NewLazyMemFile(file, file)


getFile(file) ==
    IF file.Mime = LinkMime THEN NewLinkFile(file)
    ELSE NewLazyMemFile(file, file)

\* a Statik returned as webdav.File
DirHandle(statik) == [type |-> "Statik", statik |-> statik]

NoHandle == [type |-> "nil"]

-----------------------------------------------------------------------------
(* StatikFS.OpenFile and StatikFS.Stat.  resps lists what the remote       *)
(* answers to the requests for a statik.json, in the order the call makes  *)
(* them.                                                                   *)

\* index of the first element of list whose Name() is name, 0 if none
FirstMatch(list, name) ==
    LET idx == {i \in 1..Len(list) : list[i].NameRaw = name}
    IN  IF idx = {} THEN 0 ELSE CHOOSE i \in idx : \A j \in idx : i <= j
\* only write-only opens are refused
NotWriteOnlyFlag(flag) == flag # O_WRONLY

\* "only allow read-only access"
ReadOnlyFlag(flag) == flag = O_RDONLY
\* the directories scanned before the files
ResolveLeafDirFirst(statik, leaf) ==
    LET f == FirstMatch(statik.Files, leaf)
        d == FirstMatch(statik.Directories, leaf)
    IN  IF d # 0 THEN [kind |-> "dir", idx |-> d]
        ELSE IF f # 0 THEN [kind |-> "file", idx |-> f]
        ELSE [kind |-> "none", idx |-> 0]

\* the two loops over statik.Files and statik.Directories: the files are
\* scanned first, each list from its first element
ResolveLeaf(statik, leaf) ==
    LET f == FirstMatch(statik.Files, leaf)
        d == FirstMatch(statik.Directories, leaf)
    IN  IF f # 0 THEN [kind |-> "file", idx |-> f]
        ELSE IF d # 0 THEN [kind |-> "dir", idx |-> d]
        ELSE [kind |-> "none", idx |-> 0]
\* the re-resolution without the leaf: the parent directory again
RedirToParent(statikPath, leaf) == statikPath \o <<Slash>>

\* a re-resolution of the name one level down, as a file again
RedirDeeper(statikPath, leaf) ==
    statikPath \o <<Slash>> \o leaf \o <<Slash>> \o leaf

\* redir := statikPath + "/" + name + "/"
Redir(statikPath, leaf) == statikPath \o <<Slash>> \o leaf \o <<Slash>>
\* the error of cache.Get handed to the caller
OpenFilePassErr(getErr) == getErr

\* what OpenFile returns when cache.Get failed with getErr
OpenFileGetErr(getErr) == "ErrNotExist"

\* what Stat returns when cache.Get failed with getErr
StatGetErr(getErr) == getErr

RECURSIVE OpenFileOp(_, _, _, _, _, _)
OpenFileOp(c, t, name, flag, resps, dt) ==
    IF ~ReadOnlyFlag(flag)
    THEN [err |-> "ErrPermission", val |-> NoHandle, cache |-> c, now |-> t,
          gets |-> <<>>]
    ELSE
    LET statikPath == PathDir(name)
        g == Get(c, t, statikPath, NextResp(resps), dt)
        rest == IF Fetches(g.gets) = <<>> THEN resps ELSE RestResps(resps)
        leaf == TrimPrefixSlash(PathBase(name))
        m == ResolveLeaf(g.statik, leaf)
    IN  IF g.err # "nil"
        THEN [err |-> OpenFileGetErr(g.err), val |-> NoHandle,
              cache |-> g.cache, now |-> g.now, gets |-> g.gets]
        ELSE IF HasSuffixSlash(name)
        THEN [err |-> "nil", val |-> DirHandle(g.statik), cache |-> g.cache,
              now |-> g.now, gets |-> g.gets]
        ELSE IF m.kind = "file"
        THEN [err |-> "nil", val |-> getFile(g.statik.Files[m.idx]),
              cache |-> g.cache, now |-> g.now, gets |-> g.gets]
        ELSE IF m.kind = "dir"
        THEN LET r == OpenFileOp(g.cache, g.now, Redir(statikPath, leaf),
                                 flag, rest, dt)
             IN  [r EXCEPT !.gets = g.gets \o r.gets]
        ELSE [err |-> "ErrNotExist", val |-> NoHandle, cache |-> g.cache,
              now |-> g.now, gets |-> g.gets]

NoInfo == [type |-> "nil"]

StatOp(c, t, name, resps, dt) ==
    LET statikPath == PathDir(name)
        g == Get(c, t, statikPath, NextResp(resps), dt)
        leaf == TrimPrefixSlash(PathBase(name))
        m == ResolveLeaf(g.statik, leaf)
    IN  IF g.err # "nil"
        THEN [err |-> StatGetErr(g.err), val |-> NoInfo, cache |-> g.cache,
              now |-> g.now, gets |-> g.gets]
        ELSE IF HasSuffixSlash(name)
        THEN [err |-> "nil", val |-> [type |-> "Statik", v |-> g.statik],
              cache |-> g.cache, now |-> g.now, gets |-> g.gets]
        ELSE IF m.kind = "file"
        THEN [err |-> "nil",
              val |-> [type |-> "StatikFileInfo", v |-> g.statik.Files[m.idx]],
              cache |-> g.cache, now |-> g.now, gets |-> g.gets]
        ELSE IF m.kind = "dir"
        THEN [err |-> "nil",
              val |-> [type |-> "StatikDirInfo",
                       v |-> g.statik.Directories[m.idx]],
              cache |-> g.cache, now |-> g.now, gets |-> g.gets]
        ELSE [err |-> "ErrNotExist", val |-> NoInfo, cache |-> g.cache,
              now |-> g.now, gets |-> g.gets]

\* Mkdir, RemoveAll, Rename: the error each returns
MkdirErr == "ErrNotExist"
\* a RemoveAll that answers as Mkdir does
RemoveAllNotExist == "ErrNotExist"

RemoveAllErr == "ErrPermission"
RenameErr == "ErrPermission"


-----------------------------------------------------------------------------
(* bytes.Reader *)

Min(a, b) == IF a <= b THEN a ELSE b

\* (*Reader).Read with len(p) = n
ReaderRead(r, n) ==
    IF r.i >= Len(r.s)
    THEN [r |-> r, n |-> 0, err |-> "EOF", data |-> <<>>]
    ELSE LET k == Min(n, Len(r.s) - r.i)
         IN  [r |-> [r EXCEPT !.i = r.i + k], n |-> k, err |-> "nil",
              data |-> SubSeq(r.s, r.i + 1, r.i + k)]

SeekStart == 0
SeekCurrent == 1
SeekEnd == 2

\* (*Reader).Seek; n is the new offset
ReaderSeek(r, offset, whence) ==
    LET abs == IF whence = SeekStart THEN offset
               ELSE IF whence = SeekCurrent THEN r.i + offset
               ELSE Len(r.s) + offset
    IN  IF whence \notin {SeekStart, SeekCurrent, SeekEnd}
        THEN [r |-> r, n |-> 0, err |-> "Seek: invalid whence", data |-> <<>>]
        ELSE IF abs < 0
        THEN [r |-> r, n |-> 0, err |-> "Seek: negative position",
              data |-> <<>>]
        ELSE [r |-> [r EXCEPT !.i = abs], n |-> abs, err |-> "nil",
              data |-> <<>>]

-----------------------------------------------------------------------------
(* StatikFS.openFiles, an LRU of fileCacheSize entries, oldest first *)

LruIndex(l, k) ==
    LET idx == {i \in 1..Len(l) : l[i].key = k}
    IN  IF idx = {} THEN 0 ELSE CHOOSE i \in idx : TRUE

SeqRemoveAt(l, i) == SubSeq(l, 1, i - 1) \o SubSeq(l, i + 1, Len(l))

\* a Get that never finds the key
LruGetMiss(l, k) == [found |-> FALSE, value |-> <<>>, lru |-> l]

\* a Get that leaves the order alone
LruPeek(l, k) ==
    LET i == LruIndex(l, k)
    IN  IF i = 0 THEN [found |-> FALSE, value |-> <<>>, lru |-> l]
        ELSE [found |-> TRUE, value |-> l[i].value, lru |-> l]

\* Cache.Get: a hit makes the entry the most recently used
LruGet(l, k) ==
    LET i == LruIndex(l, k)
    IN  IF i = 0 THEN [found |-> FALSE, value |-> <<>>, lru |-> l]
        ELSE [found |-> TRUE, value |-> l[i].value,
              lru |-> Append(SeqRemoveAt(l, i), l[i])]

\* an Add that never evicts
LruAddNoEvict(l, k, v, size) ==
    LET i == LruIndex(l, k)
        e == [key |-> k, value |-> v]
    IN  IF i # 0 THEN Append(SeqRemoveAt(l, i), e) ELSE Append(l, e)

\* Cache.Add: update or insert as most recently used, evict the oldest
LruAdd(l, k, v, size) ==
    LET i == LruIndex(l, k)
        e == [key |-> k, value |-> v]
    IN  IF i # 0 THEN Append(SeqRemoveAt(l, i), e)
        ELSE IF Len(l) + 1 > size THEN Append(Tail(l), e)
        ELSE Append(l, e)

-----------------------------------------------------------------------------
(* Population of a LazyMemFile *)

\* the bodies a remote server may hold at a URL
Contents == { <<"x">>, <<"y", "z">> }

\* what one GET of a file URL can end in: httpGet fails, reading the body
\* fails, Body.Close fails, or the body is read
ContentResponses ==
    {[kind |-> k, body |-> <<>>] : k \in {"getErr", "readErr", "closeErr"}}
    \cup {[kind |-> "ok", body |-> b] : b \in Contents}

ContentGetErr == [kind |-> "getErr", body |-> <<>>]

NextContentResp(resps) == IF resps = <<>> THEN ContentGetErr ELSE Head(resps)

\* a fetchBytes that takes a body whose read failed as an empty body
fetchBytesIgnoreRead(file, resp) ==
    IF resp.kind = "getErr" THEN [buf |-> <<>>, err |-> "httpGet error"]
    ELSE IF resp.kind = "closeErr" THEN [buf |-> <<>>, err |-> "Close error"]
    ELSE [buf |-> resp.body, err |-> "nil"]

fetchBytes(file, resp) ==
    IF resp.kind = "getErr" THEN [buf |-> <<>>, err |-> "httpGet error"]
    ELSE IF resp.kind = "readErr" THEN [buf |-> <<>>, err |-> "ReadFrom error"]
    ELSE IF resp.kind = "closeErr" THEN [buf |-> <<>>, err |-> "Close error"]
    ELSE [buf |-> resp.body, err |-> "nil"]

\* a populate that empties the LRU when its fetch fails
PopulateDropOnError(file, l, resp) ==
    LET g == LruGet(l, file.Url)
        b == fetchBytes(file, resp)
    IN  IF g.found
        THEN [buf |-> g.value, err |-> "nil", lru |-> g.lru,
              fetched |-> <<>>, looked |-> <<file.Url>>]
        ELSE IF b.err # "nil"
        THEN [buf |-> <<>>, err |-> b.err, lru |-> <<>>,
              fetched |-> <<file.Url>>, looked |-> <<file.Url>>]
        ELSE [buf |-> b.buf, err |-> "nil",
              lru |-> LruAdd(g.lru, file.Url, b.buf, lruSize),
              fetched |-> <<file.Url>>, looked |-> <<file.Url>>]

\* the closure returned by createFilePopulate(file), run on the LRU l
Populate(file, l, resp) ==
    IF file.Mime = LinkMime
    THEN [buf |-> <<file.Url>>, err |-> "nil", lru |-> l, fetched |-> <<>>,
          looked |-> <<>>]
    ELSE LET g == LruGet(l, file.Url)
             b == fetchBytes(file, resp)
         IN  IF g.found
             THEN [buf |-> g.value, err |-> "nil", lru |-> g.lru,
                   fetched |-> <<>>, looked |-> <<file.Url>>]
             ELSE IF b.err # "nil"
             THEN [buf |-> <<>>, err |-> b.err, lru |-> g.lru,
                   fetched |-> <<file.Url>>, looked |-> <<file.Url>>]
             ELSE [buf |-> b.buf, err |-> "nil",
                   lru |-> LruAdd(g.lru, file.Url, b.buf, lruSize),
                   fetched |-> <<file.Url>>, looked |-> <<file.Url>>]
\* load on every access
AlwaysLoad(reader) == TRUE

\* load again once the reader is at its end
NeedsLoadAtEnd(reader) == reader.nil \/ reader.i >= Len(reader.s)

\* m.reader == nil
NeedsLoad(reader) == reader.nil

\* LazyMemFile.load followed by op on the reader: Read and Seek share the
\* shape "if m.reader == nil { load }; return m.reader.<op>"
LazyAccess(hd, l, resp, isRead, a1, a2) ==
    LET p == Populate(hd.populate, l, resp)
        rd == IF NeedsLoad(hd.reader) THEN NewReader(p.buf) ELSE hd.reader
        o == IF isRead THEN ReaderRead(rd, a1) ELSE ReaderSeek(rd, a1, a2)
    IN  IF NeedsLoad(hd.reader) /\ p.err # "nil"
        THEN [hd |-> hd, lru |-> p.lru, n |-> 0, err |-> p.err, data |-> <<>>,
              fetched |-> p.fetched, looked |-> p.looked, loaded |-> 0]
        ELSE [hd |-> [hd EXCEPT !.reader = o.r],
              lru |-> IF NeedsLoad(hd.reader) THEN p.lru ELSE l,
              n |-> o.n, err |-> o.err, data |-> o.data,
              fetched |-> IF NeedsLoad(hd.reader) THEN p.fetched ELSE <<>>,
              looked |-> IF NeedsLoad(hd.reader) THEN p.looked ELSE <<>>,
              loaded |-> IF NeedsLoad(hd.reader) THEN 1 ELSE 0]

\* LinkFile reads and seeks its embedded reader
LinkAccess(hd, l, isRead, a1, a2) ==
    LET o == IF isRead THEN ReaderRead(hd.r, a1) ELSE ReaderSeek(hd.r, a1, a2)
    IN  [hd |-> [hd EXCEPT !.r = o.r], lru |-> l, n |-> o.n, err |-> o.err,
         data |-> o.data, fetched |-> <<>>, looked |-> <<>>, loaded |-> 0]

\* Statik.Read and Statik.Seek
StatikAccess(hd, l) ==
    [hd |-> hd, lru |-> l, n |-> 0, err |-> "errReadOnly", data |-> <<>>,
     fetched |-> <<>>, looked |-> <<>>, loaded |-> 0]

\* Read (isRead) or Seek on a handle of any type
Access(hd, l, resp, isRead, a1, a2) ==
    IF hd.type = "LazyMemFile" THEN LazyAccess(hd, l, resp, isRead, a1, a2)
    ELSE IF hd.type = "LinkFile" THEN LinkAccess(hd, l, isRead, a1, a2)
    ELSE StatikAccess(hd, l)

\* the loop of Statik.Readdir over s.Directories from index i on: infos is
\* returned from inside the loop (done) when i reaches count
RECURSIVE FillDirs(_, _, _, _)
FillDirs(infos, dirs, i, count) ==
    IF i = Len(dirs) THEN [infos |-> infos, done |-> FALSE]
    ELSE IF i = count THEN [infos |-> infos, done |-> TRUE]
    ELSE FillDirs([infos EXCEPT ![i + 1] = dirs[i + 1]], dirs, i + 1, count)

\* a loop over s.Files that writes at i, without the directories before it
RECURSIVE FillFilesAtStart(_, _, _, _, _)
FillFilesAtStart(infos, files, nDirs, i, count) ==
    IF i = Len(files) \/ i = count THEN infos
    ELSE FillFilesAtStart([infos EXCEPT ![i + 1] = files[i + 1]], files,
                          nDirs, i + 1, count)

\* the loop over s.Files: arrIdx := i + len(s.Directories)
RECURSIVE FillFiles(_, _, _, _, _)
FillFiles(infos, files, nDirs, i, count) ==
    IF i = Len(files) \/ i + nDirs = count THEN infos
    ELSE FillFiles([infos EXCEPT ![i + nDirs + 1] = files[i + 1]], files,
                   nDirs, i + 1, count)

\* Statik.Readdir: count is clamped, infos is made with count nil slots,
\* the two loops fill it
Readdir(statik, count) ==
    LET total == Len(statik.Directories) + Len(statik.Files)
        k == IF count <= 0 \/ count > total THEN total ELSE count
        d == FillDirs([j \in 1..k |-> NoInfo], statik.Directories, 0, k)
    IN  IF d.done THEN d.infos
        ELSE FillFiles(d.infos, statik.Files, Len(statik.Directories), 0, k)

\* the error of Write and of Readdir by handle type
WriteErr(hd) ==
    IF hd.type = "LinkFile" THEN "ErrPermission" ELSE "errReadOnly"

ReaddirErr(hd) == IF hd.type = "Statik" THEN "nil" ELSE "errNotADir"

\* what handle.Stat() returns
HandleStat(hd) ==
    IF hd.type = "LazyMemFile" THEN [type |-> "StatikFileInfo", v |-> hd.info]
    ELSE IF hd.type = "LinkFile" THEN [type |-> "StatikFileInfo", v |-> hd.i]
    ELSE [type |-> "Statik", v |-> hd.statik]

-----------------------------------------------------------------------------
(* parseSize.  A raw size is a sequence of characters.  The float64 of     *)
(* strconv.ParseFloat and of the products is kept exactly: a sign, a       *)
(* mantissa of at most MantBits bits and a power of two, every result      *)
(* rounded to nearest, ties to even, as the hardware does.  A natural      *)
(* number too large for one integer is a sequence of limbs of LimbBits     *)
(* bits, the lowest first, without leading zero limbs.  The inputs stay    *)
(* far from the ends of the float64 and int64 ranges.                      *)

RECURSIVE BitLen(_)
BitLen(n) == IF n = 0 THEN 0 ELSE 1 + BitLen(n \div 2)

LimbBase == 2 ^ 15

LimbBits == BitLen(LimbBase) - 1

\* the bits of the mantissa of a float64, the hidden one included
MantBits == 53

RECURSIVE BigOf(_)
BigOf(n) == IF n = 0 THEN <<>> ELSE <<n % LimbBase>> \o BigOf(n \div LimbBase)

RECURSIVE BigNorm(_)
BigNorm(a) ==
    IF a # <<>> /\ a[Len(a)] = 0 THEN BigNorm(SubSeq(a, 1, Len(a) - 1)) ELSE a

\* a * m + c for m and c below LimbBase
RECURSIVE BigMulAdd(_, _, _)
BigMulAdd(a, m, c) ==
    IF a = <<>> THEN BigOf(c)
    ELSE LET t == Head(a) * m + c
         IN  <<t % LimbBase>> \o BigMulAdd(Tail(a), m, t \div LimbBase)

\* quotient and remainder of a by d, for 0 < d <= LimbBase
RECURSIVE BigDivRaw(_, _)
BigDivRaw(a, d) ==
    IF a = <<>> THEN [q |-> <<>>, r |-> 0]
    ELSE LET hi == BigDivRaw(Tail(a), d)
             cur == hi.r * LimbBase + Head(a)
         IN  [q |-> <<cur \div d>> \o hi.q, r |-> cur % d]

BigDiv(a, d) ==
    LET x == BigDivRaw(a, d) IN [q |-> BigNorm(x.q), r |-> x.r]

BigBitLen(a) ==
    IF a = <<>> THEN 0 ELSE LimbBits * (Len(a) - 1) + BitLen(a[Len(a)])

BigOdd(a) == a # <<>> /\ a[1] % 2 = 1

\* a * 2^s
BigShl(a, s) ==
    IF a = <<>> THEN <<>>
    ELSE [i \in 1..(s \div LimbBits) |-> 0]
         \o BigMulAdd(a, 2 ^ (s % LimbBits), 0)

\* a \div 2^s, and whether bits were lost
BigShr(a, s) ==
    LET limbs == Min(s \div LimbBits, Len(a))
        d == BigDiv(SubSeq(a, limbs + 1, Len(a)), 2 ^ (s % LimbBits))
    IN  [q |-> d.q,
         lost |-> d.r # 0 \/ \E i \in 1..limbs : a[i] # 0]

\* a / 2^s rounded to nearest, ties to even; lost: a itself is the integer
\* part of a number with more bits below
BigRoundShr(a, s, lost) ==
    IF s = 0 THEN a
    ELSE LET x == BigShr(a, s - 1)
             half == BigOdd(x.q)
             q == BigShr(x.q, 1).q
             up == half /\ (x.lost \/ lost \/ BigOdd(q))
         IN  IF up THEN BigMulAdd(q, 1, 1) ELSE q

\* the float64 nearest to m * 2^e
Round64(neg, m, e, lost) ==
    LET over == BigBitLen(m) - MantBits
    IN  IF over <= 0 THEN [neg |-> neg, m |-> m, e |-> e]
        ELSE [neg |-> neg, m |-> BigRoundShr(m, over, lost), e |-> e + over]

DigitChars == {"0", "1", "2", "3", "4", "5", "6", "7", "8", "9"}

DigitVal(c) == CHOOSE i \in 0..9 : ToString(i) = c

AllDigits(t) == \A i \in 1..Len(t) : t[i] \in DigitChars

\* the number written by a run of digits
RECURSIVE BigOfDigits(_, _)
BigOfDigits(t, acc) ==
    IF t = <<>> THEN acc
    ELSE BigOfDigits(Tail(t), BigMulAdd(acc, 10, DigitVal(Head(t))))

\* the bits the quotient of ParseFloat is computed with before rounding:
\* enough to leave two bits below the mantissa for a divisor of one limb
GuardBits == MantBits + LimbBits + 2

\* strconv.ParseFloat(t, 64) for a token of signs, digits and points: an
\* optional sign, digits with at most one point, at least one digit
ParseFloat(t) ==
    LET signed == t # <<>> /\ t[1] \in {"-", "+"}
        body == IF signed THEN Tail(t) ELSE t
        pts == {i \in 1..Len(body) : body[i] = "."}
        pt == IF pts = {} THEN Len(body) + 1 ELSE CHOOSE i \in pts : TRUE
        int == SubSeq(body, 1, pt - 1)
        frac == SubSeq(body, pt + 1, Len(body))
        ok == /\ Cardinality(pts) <= 1
              /\ AllDigits(int) /\ AllDigits(frac)
              /\ Len(int) + Len(frac) > 0
        neg == signed /\ t[1] = "-"
    IN  IF ~ok THEN [ok |-> FALSE, v |-> [neg |-> FALSE, m |-> <<>>, e |-> 0]]
        ELSE LET n == BigOfDigits(int \o frac, <<>>)
                 d == BigDiv(BigShl(n, GuardBits), 10 ^ Len(frac))
             IN  [ok |-> TRUE,
                  v |-> Round64(neg, d.q, 0 - GuardBits, d.r # 0)]

\* x * k in float64, for a small integer k
FloatMul(x, k) == Round64(x.neg, BigMulAdd(x.m, k, 0), x.e, FALSE)

RECURSIVE FloatMulAll(_, _)
FloatMulAll(x, ks) ==
    IF ks = <<>> THEN x ELSE FloatMulAll(FloatMul(x, Head(ks)), Tail(ks))

\* int64(x): the fraction is dropped
ToInt64(x) ==
    LET mag == IF x.e >= 0 THEN BigShl(x.m, x.e) ELSE BigShr(x.m, 0 - x.e).q
    IN  [neg |-> x.neg /\ mag # <<>>, mag |-> mag]

Int64Zero == [neg |-> FALSE, mag |-> <<>>]

Space == " "

FirstSpace(s) ==
    LET idx == {i \in 1..Len(s) : s[i] = Space}
    IN  IF idx = {} THEN 0 ELSE CHOOSE i \in idx : \A j \in idx : i <= j

\* strings.Split(raw, " ")
RECURSIVE SplitSpace(_)
SplitSpace(s) ==
    LET i == FirstSpace(s)
    IN  IF i = 0 THEN <<s>>
        ELSE <<SubSeq(s, 1, i - 1)>> \o SplitSpace(SubSeq(s, i + 1, Len(s)))

\* the switch of parseSize: the constants the size is multiplied by, in
\* the order of the expression
UnitFactors ==
    [u \in { <<"B">>, <<"k", "B">>, <<"M", "B">>, <<"G", "B">>, <<"T", "B">>,
             <<"k", "i", "B">>, <<"M", "i", "B">>, <<"G", "i", "B">>,
             <<"T", "i", "B">> } |->
        CASE u = <<"B">> -> <<>>
          [] u = <<"k", "B">> -> <<1024>>
          [] u = <<"M", "B">> -> <<1024, 1024>>
          [] u = <<"G", "B">> -> <<1024, 1024, 1024>>
          [] u = <<"T", "B">> -> <<1024, 1024, 1024, 1024>>
          [] u = <<"k", "i", "B">> -> <<1000>>
          [] u = <<"M", "i", "B">> -> <<1000, 1000>>
          [] u = <<"G", "i", "B">> -> <<1000, 1000, 1000>>
          [] u = <<"T", "i", "B">> -> <<1000, 1000, 1000, 1000>>]

parseSize(raw) ==
    LET parts == SplitSpace(raw)
        size == ParseFloat(parts[1])
    IN  IF Len(parts) # 2
        THEN [size |-> Int64Zero, err |-> "invalid size"]
        ELSE IF ~size.ok
        THEN [size |-> Int64Zero, err |-> "ParseFloat"]
        ELSE IF parts[2] \in DOMAIN UnitFactors
        THEN [size |-> ToInt64(FloatMulAll(size.v, UnitFactors[parts[2]])),
              err |-> "nil"]
        ELSE [size |-> Int64Zero, err |-> "invalid size format"]

\* a Size that hands the failure on as -1
parseSizeOrMinusOne(sizeRaw) ==
    LET r == parseSize(sizeRaw)
    IN  IF r.err # "nil" THEN [neg |-> TRUE, mag |-> <<1>>] ELSE r.size

parseSizeOrZero(sizeRaw) ==
    LET r == parseSize(sizeRaw)
    IN  IF r.err # "nil" THEN Int64Zero ELSE r.size

-----------------------------------------------------------------------------
(* State and actions *)

\* gets: the trace of the call's statikCache.Get calls; cfetched and
\* looked: the file URLs the call requested from the
\* remote and looked up in openFiles; n, data: the count and bytes returned
NoCall ==
    [op |-> "none", name |-> <<>>, flag |-> O_RDONLY, h |-> 0,
     err |-> "nil", val |-> NoInfo, gets |-> <<>>,
     n |-> 0, data |-> <<>>, cfetched |-> <<>>, looked |-> <<>>]

NoHist == [fetches |-> 0, loads |-> 0]

Slots == DOMAIN handles

\* no Read or Seek is in progress on the handle
NoLoad == [pc |-> "idle", isRead |-> TRUE, a1 |-> 0, a2 |-> 0]

\* the goroutines that call statikCache.Get at the same time
Goroutines == {"g1", "g2"}

\* the goroutine is not inside Get
NoGet ==
    [pc |-> "idle", path |-> <<>>, contentOk |-> FALSE, exp |-> 0,
     statik |-> ZeroStatik, resp |-> GetErrResponse]

\* sync.RWMutex: the goroutines that hold it by RLock, and by Lock
NoHolders == [readers |-> {}, writer |-> {}]

\* the calls of SetupOTelSDK; each has its own shutdownFuncs and shutdown
Setups == 1..MaxSetups

\* the cleanup functions SetupOTelSDK registers
Cleanups == {"tracerProvider.Shutdown"}

\* SetupOTelSDK at its first statement: nothing registered, nothing invoked.
\* An error is the sequence of the messages joined in it, nil is <<>>.
\* registered and invoked record what was appended and how often each
\* cleanup was called, ret is what the last shutdown returned, n counts the
\* caller's calls of the returned shutdown.
NoSetup ==
    [pc |-> "start", shutdownFuncs |-> <<>>, err |-> <<>>, ret |-> <<>>,
     registered |-> <<>>, invoked |-> [c \in Cleanups |-> 0], n |-> 0]

FreeSlots == {h \in Slots : handles[h].type = "nil"}

Init ==
    /\ cache = <<>>
    /\ now = 0
    /\ openFiles = <<>>
    /\ handles = [h \in 1..MaxHandles |-> NoHandle]
    /\ hist = [h \in 1..MaxHandles |-> NoHist]
    /\ last = NoCall
    /\ lruSize = fileCacheSize
    /\ loading = [h \in 1..MaxHandles |-> NoLoad]
    /\ calls = [g \in Goroutines |-> NoGet]
    /\ cacheLock = NoHolders
    /\ otel = [s \in Setups |-> NoSetup]

\* the caller keeps the returned handle in slot h, or drops it (h = 0)
OpenFile(name, flag, resps, dt, h) ==
    /\ h # 0 => h \in FreeSlots /\ \A g \in FreeSlots : h <= g
    /\ \E r \in {OpenFileOp(cache, now, name, flag, resps, dt)} :
        /\ Len(Fetches(r.gets)) = Len(resps)
        /\ Fetches(r.gets) = <<>> => dt = 0
        /\ h # 0 => r.err = "nil"
        /\ cache' = r.cache
        /\ now' = r.now
        /\ handles' = IF h = 0 THEN handles
                      ELSE [handles EXCEPT ![h] = r.val]
        /\ last' = [NoCall EXCEPT !.op = "OpenFile", !.name = name,
                                  !.flag = flag, !.h = h, !.err = r.err,
                                  !.val = r.val, !.gets = r.gets]
        /\ UNCHANGED <<others, openFiles, hist>>

Stat(name, resps, dt) ==
    \E r \in {StatOp(cache, now, name, resps, dt)} :
        /\ Len(Fetches(r.gets)) = Len(resps)
        /\ Fetches(r.gets) = <<>> => dt = 0
        /\ cache' = r.cache
        /\ now' = r.now
        /\ last' = [NoCall EXCEPT !.op = "Stat", !.name = name,
                                  !.err = r.err, !.val = r.val,
                                  !.gets = r.gets]
        /\ UNCHANGED <<others, openFiles, handles, hist>>

\* a Mkdir that drops the cached manifest of the parent directory
MkdirInvalidates(name) ==
    /\ last' = [NoCall EXCEPT !.op = "Mkdir", !.name = name, !.err = MkdirErr]
    /\ cache' = IF PathDir(name) \in DOMAIN cache
                THEN MapRemove(cache, PathDir(name)) ELSE cache
    /\ UNCHANGED <<others, now, openFiles, handles, hist>>

Mkdir(name) ==
    /\ last' = [NoCall EXCEPT !.op = "Mkdir", !.name = name, !.err = MkdirErr]
    /\ UNCHANGED <<others, cache, now, openFiles, handles, hist>>

RemoveAll(name) ==
    /\ last' = [NoCall EXCEPT !.op = "RemoveAll", !.name = name,
                              !.err = RemoveAllErr]
    /\ UNCHANGED <<others, cache, now, openFiles, handles, hist>>

Rename(oldName, newName) ==
    /\ last' = [NoCall EXCEPT !.op = "Rename", !.name = oldName,
                              !.err = RenameErr]
    /\ UNCHANGED <<others, cache, now, openFiles, handles, hist>>

\* time passes between two calls
Tick(to) ==
    /\ to > now
    /\ now' = to
    /\ last' = NoCall
    /\ UNCHANGED <<others, cache, openFiles, handles, hist>>

\* the read index stays within MaxSeekOffset of the end of the bytes
InReach(hd) ==
    /\ hd.type = "LazyMemFile" =>
           hd.reader.i <= Len(hd.reader.s) + MaxSeekOffset
    /\ hd.type = "LinkFile" => hd.r.i <= Len(hd.r.s) + MaxSeekOffset

Held == {h \in Slots : handles[h].type # "nil"}

\* Read (isRead, a1 = len(p)) or Seek (a1 = offset, a2 = whence) on the
\* handle in slot h; resps lists the remote's answers to its file requests
\* a Read or Seek that moves the index of every handle of the same URL, as
\* if the handles shared one reader
AccessHandleShared(h, resps, isRead, a1, a2) ==
    /\ h \in Held
    /\ \E r \in {Access(handles[h], openFiles, NextContentResp(resps), isRead,
                        a1, a2)} :
        /\ loading[h].pc = "idle"
        /\ Len(r.fetched) = Len(resps)
        /\ hist[h].fetches + Len(r.fetched) <= MaxFetches
        /\ InReach(r.hd)
        /\ handles' =
              [g \in Slots |->
                  IF g = h THEN r.hd
                  ELSE IF /\ handles[g].type = "LazyMemFile"
                          /\ r.hd.type = "LazyMemFile"
                          /\ handles[g].populate.Url = r.hd.populate.Url
                          /\ ~handles[g].reader.nil
                       THEN [handles[g] EXCEPT !.reader.i = r.hd.reader.i]
                       ELSE handles[g]]
        /\ openFiles' = r.lru
        /\ hist' = [hist EXCEPT ![h] =
                       [fetches |-> @.fetches + Len(r.fetched),
                        loads |-> Min(@.loads + r.loaded, MaxFetches)]]
        /\ last' = [NoCall EXCEPT !.op = IF isRead THEN "Read" ELSE "Seek",
                                  !.h = h, !.err = r.err, !.n = r.n,
                                  !.data = r.data, !.cfetched = r.fetched,
                                  !.looked = r.looked]
        /\ UNCHANGED <<others, cache, now>>

AccessHandle(h, resps, isRead, a1, a2) ==
    /\ h \in Held
    /\ \E r \in {Access(handles[h], openFiles, NextContentResp(resps), isRead,
                        a1, a2)} :
        /\ loading[h].pc = "idle"
        /\ Len(r.fetched) = Len(resps)
        /\ hist[h].fetches + Len(r.fetched) <= MaxFetches
        /\ InReach(r.hd)
        /\ handles' = [handles EXCEPT ![h] = r.hd]
        /\ openFiles' = r.lru
        /\ hist' = [hist EXCEPT ![h] =
                       [fetches |-> @.fetches + Len(r.fetched),
                        loads |-> Min(@.loads + r.loaded, MaxFetches)]]
        /\ last' = [NoCall EXCEPT !.op = IF isRead THEN "Read" ELSE "Seek",
                                  !.h = h, !.err = r.err, !.n = r.n,
                                  !.data = r.data, !.cfetched = r.fetched,
                                  !.looked = r.looked]
        /\ UNCHANGED <<others, cache, now>>

Read(h, n, resps) == AccessHandle(h, resps, TRUE, n, 0)

Seek(h, offset, whence, resps) == AccessHandle(h, resps, FALSE, offset, whence)

HandleStatCall(h) ==
    /\ h \in Held
    /\ last' = [NoCall EXCEPT !.op = "File.Stat", !.h = h,
                              !.val = HandleStat(handles[h])]
    /\ UNCHANGED <<others, cache, now, openFiles, handles, hist>>

\* a Readdir with a cursor: the entries returned are not returned again,
\* and a call with count > 0 at the end of the directory reports EOF
HandleReaddirCursor(h, count) ==
    /\ h \in Held
    /\ handles[h].type = "Statik"
    /\ \E data \in {Readdir(handles[h].statik, count)} :
       \E nd \in {Min(Len(data), Len(handles[h].statik.Directories))} :
        /\ last' = [NoCall EXCEPT !.op = "File.Readdir", !.h = h,
                                  !.err = IF count > 0 /\ data = <<>>
                                          THEN "EOF" ELSE "nil",
                                  !.data = data]
        /\ handles' = [handles EXCEPT
              ![h].statik.Directories =
                  SubSeq(@, nd + 1, Len(@)),
              ![h].statik.Files =
                  SubSeq(@, Len(data) - nd + 1, Len(@))]
    /\ UNCHANGED <<others, cache, now, openFiles, hist>>

HandleReaddir(h, count) ==
    /\ h \in Held
    /\ last' = [NoCall EXCEPT !.op = "File.Readdir", !.h = h,
                              !.err = ReaddirErr(handles[h]),
                              !.data = IF handles[h].type = "Statik"
                                       THEN Readdir(handles[h].statik, count)
                                       ELSE <<>>]
    /\ UNCHANGED <<others, cache, now, openFiles, handles, hist>>

HandleWrite(h) ==
    /\ h \in Held
    /\ last' = [NoCall EXCEPT !.op = "File.Write", !.h = h,
                              !.err = WriteErr(handles[h])]
    /\ UNCHANGED <<others, cache, now, openFiles, handles, hist>>

\* Close returns nil and leaves the handle as it is
HandleClose(h) ==
    /\ h \in Held
    /\ last' = [NoCall EXCEPT !.op = "File.Close", !.h = h]
    /\ UNCHANGED <<others, cache, now, openFiles, handles, hist>>

\* the caller lets go of the handle
Release(h) ==
    /\ h \in Held
    /\ loading[h].pc = "idle"
    /\ handles' = [handles EXCEPT ![h] = NoHandle]
    /\ hist' = [hist EXCEPT ![h] = NoHist]
    /\ last' = NoCall
    /\ UNCHANGED <<others, cache, now, openFiles>>

\* the answers of the remote to at most n requests
Answers(n) == UNION {[1..k -> ManifestResponses] : k \in 0..n}

OneAnswer == Answers(1)

TwoAnswers == Answers(2)

Next ==
    \/ \E name \in Names, resps \in TwoAnswers, dt \in Delays(now) :
          OpenFile(name, O_RDONLY, resps, dt, 0)
    \/ \E name \in AllNames, flag \in OpenFlags \ {O_RDONLY},
          resps \in TwoAnswers : OpenFile(name, flag, resps, 0, 0)
    \/ \E name \in Names, resps \in OneAnswer, dt \in Delays(now) :
          Stat(name, resps, dt)
    \/ \E name \in WriteNames : Mkdir(name)
    \/ \E name \in WriteNames : RemoveAll(name)
    \/ \E n1, n2 \in WriteNames : Rename(n1, n2)
    \/ \E to \in TimePoints : Tick(to)

Spec == Init /\ [][Next]_vars

-----------------------------------------------------------------------------
(* The file handles: a remote whose manifests are always served, callers   *)
(* that keep the handles they open, no time passing.                       *)

GoodAnswers ==
    UNION {[1..k -> {r \in ManifestResponses : r.kind = "ok"}] : k \in 0..2}

ContentAnswers == UNION {[1..k -> ContentResponses] : k \in 0..1}

ReadLens == {0, 1, MaxReadLen}

SeekOffsets == {0 - MaxSeekOffset, 0, MaxSeekOffset}

Whences == {SeekStart, SeekCurrent, SeekEnd, SeekEnd + 1}

\* the answers of the remote to the file requests a Read or Seek on the
\* handle in slot h makes
AnswersTo(h, isRead, a1, a2) ==
    IF h \in Held
    THEN LET r == Access(handles[h], openFiles, ContentGetErr, isRead, a1, a2)
         IN  {resps \in ContentAnswers : Len(resps) = Len(r.fetched)}
    ELSE {}

NextFile ==
    \/ \E name \in FileNames, resps \in GoodAnswers, h \in Slots :
          OpenFile(name, O_RDONLY, resps, 0, h)
    \/ \E h \in Slots, n \in ReadLens :
          \E resps \in AnswersTo(h, TRUE, n, 0) : Read(h, n, resps)
    \/ \E h \in Slots, off \in SeekOffsets, w \in Whences :
          \E resps \in AnswersTo(h, FALSE, off, w) : Seek(h, off, w, resps)
    \/ \E h \in Slots : HandleStatCall(h)
    \/ \E h \in Slots, count \in {-1, 1, 2} : HandleReaddir(h, count)
    \/ \E h \in Slots : HandleWrite(h)
    \/ \E h \in Slots : HandleClose(h)
    \/ \E h \in Slots : Release(h)

SpecFile == Init /\ [][NextFile]_vars


-----------------------------------------------------------------------------
(* The LRU of file bodies under load: a mount whose openFiles was built    *)
(* with CacheCap entries in place of fileCacheSize, a directory of         *)
(* CacheCap + 1 files with a URL each, and two callers that read their     *)
(* handles at the same time.  A Read or Seek that has to fetch is two      *)
(* steps: the lookup in openFiles that misses, and the end of fetchBytes   *)
(* followed by openFiles.Add.                                              *)

CacheUrls == {ToString(i) : i \in 1..(CacheCap + 1)}

ManifestC ==
    Statik(DirInfo(<<"r">>, "u0", "4 kB", 6), <<>>,
           [i \in 1..(CacheCap + 1) |->
               FileInfo(<<ToString(i)>>, ToString(i), <<"text/plain">>,
                        "1 B", 6)])

CacheNames == {<<"/", u>> : u \in CacheUrls}

Loaders == {1, 2}

InitCache ==
    /\ cache = <<>>
    /\ now = 0
    /\ openFiles = <<>>
    /\ handles = [h \in Loaders |-> NoHandle]
    /\ hist = [h \in Loaders |-> NoHist]
    /\ last = NoCall
    /\ lruSize = CacheCap
    /\ loading = [h \in Loaders |-> NoLoad]
    /\ calls = [g \in Goroutines |-> NoGet]
    /\ cacheLock = NoHolders
    /\ otel = [s \in Setups |-> NoSetup]

\* m.reader == nil and m.openFiles.Get(file.Url) finds nothing: the call
\* goes on to fetchBytes
StartFetch(h, isRead, a1, a2) ==
    /\ h \in Held
    /\ handles[h].type = "LazyMemFile"
    /\ loading[h].pc = "idle"
    /\ NeedsLoad(handles[h].reader)
    /\ ~LruGet(openFiles, handles[h].populate.Url).found
    /\ hist[h].fetches < MaxFetches
    /\ loading' = [loading EXCEPT ![h] =
                       [pc |-> "fetching", isRead |-> isRead, a1 |-> a1,
                        a2 |-> a2]]
    /\ UNCHANGED <<cache, now, openFiles, handles, hist, last, lruSize, otel,
                   calls, cacheLock>>

\* fetchBytes returns; on success the body is added to openFiles, becomes
\* the handle's reader, and the Read or Seek is served from it
EndFetch(h, resp) ==
    /\ h \in Held
    /\ loading[h].pc = "fetching"
    /\ \E b \in {fetchBytes(handles[h].populate, resp)} :
       \E o \in {IF loading[h].isRead
                 THEN ReaderRead(NewReader(b.buf), loading[h].a1)
                 ELSE ReaderSeek(NewReader(b.buf), loading[h].a1,
                                 loading[h].a2)} :
        /\ openFiles' = IF b.err # "nil" THEN openFiles
                        ELSE LruAdd(openFiles, handles[h].populate.Url,
                                    b.buf, lruSize)
        /\ handles' = IF b.err # "nil" THEN handles
                      ELSE [handles EXCEPT ![h].reader = o.r]
        /\ hist' = [hist EXCEPT ![h] =
                       [fetches |-> @.fetches + 1,
                        loads |-> IF b.err # "nil" THEN @.loads
                                  ELSE Min(@.loads + 1, MaxFetches)]]
        /\ last' = [NoCall EXCEPT
                       !.op = IF loading[h].isRead THEN "Read" ELSE "Seek",
                       !.h = h,
                       !.err = IF b.err # "nil" THEN b.err ELSE o.err,
                       !.n = IF b.err # "nil" THEN 0 ELSE o.n,
                       !.data = IF b.err # "nil" THEN <<>> ELSE o.data,
                       !.cfetched = <<handles[h].populate.Url>>,
                       !.looked = <<handles[h].populate.Url>>]
    /\ loading' = [loading EXCEPT ![h] = NoLoad]
    /\ UNCHANGED <<cache, now, lruSize, otel, calls, cacheLock>>

\* the remote serves ManifestC
CacheAnswers ==
    UNION {[1..k -> {[kind |-> "ok", statik |-> ManifestC]}] : k \in 0..1}

\* a file request is answered with a body
CacheBodies == {r \in ContentResponses : r.kind = "ok"}

NextCache ==
    \/ \E name \in CacheNames, resps \in CacheAnswers, h \in Slots :
          OpenFile(name, O_RDONLY, resps, 0, h)
    \/ \E h \in Slots : Read(h, MaxReadLen, <<>>)
    \/ \E h \in Slots : StartFetch(h, TRUE, MaxReadLen, 0)
    \/ \E h \in Slots, resp \in CacheBodies : EndFetch(h, resp)
    \/ \E h \in Slots : Release(h)

SpecCache == InitCache /\ [][NextCache]_vars

\* the same small mount read by one caller while time passes and the
\* remote fails to serve some manifests and some files
OneReader == {1}

InitCacheTime ==
    /\ cache = <<>>
    /\ now = 0
    /\ openFiles = <<>>
    /\ handles = [h \in OneReader |-> NoHandle]
    /\ hist = [h \in OneReader |-> NoHist]
    /\ last = NoCall
    /\ lruSize = CacheCap
    /\ loading = [h \in OneReader |-> NoLoad]
    /\ calls = [g \in Goroutines |-> NoGet]
    /\ cacheLock = NoHolders
    /\ otel = [s \in Setups |-> NoSetup]

CacheTimeAnswers ==
    UNION {[1..k -> {GetErrResponse, [kind |-> "ok", statik |-> ManifestC]}] :
              k \in 0..1}

\* a file request fails or is answered with a body
CacheTimeResponses == {r \in ContentResponses : r.kind \in {"getErr", "ok"}}

NextCacheTime ==
    \/ \E name \in CacheNames, resps \in CacheTimeAnswers,
          h \in Slots \cup {0} : OpenFile(name, O_RDONLY, resps, 0, h)
    \/ \E h \in Slots : \E resps \in AnswersTo(h, TRUE, MaxReadLen, 0) :
          /\ \A i \in 1..Len(resps) : resps[i] \in CacheTimeResponses
          /\ Read(h, MaxReadLen, resps)
    \/ \E h \in Slots : Release(h)
    \/ Tick(StatikCachingTime)

SpecCacheTime == InitCacheTime /\ [][NextCacheTime]_vars

\* the same small mount with a caller that reads files and also asks for
\* directories to be made and for names to be removed and renamed
NextWrite ==
    \/ \E name \in CacheNames, resps \in CacheAnswers, h \in Slots :
          OpenFile(name, O_RDONLY, resps, 0, h)
    \/ \E h \in Slots : \E resps \in AnswersTo(h, TRUE, MaxReadLen, 0) :
          /\ \A i \in 1..Len(resps) : resps[i] \in CacheBodies
          /\ Read(h, MaxReadLen, resps)
    \/ \E h \in Slots : Release(h)
    \/ \E name \in WriteNames : Mkdir(name)
    \/ \E name \in WriteNames : RemoveAll(name)
    \/ \E n1, n2 \in WriteNames : Rename(n1, n2)

SpecWrite == InitCacheTime /\ [][NextWrite]_vars

\* the same small mount with a caller that makes every call on the handle
\* it holds, and asks Stat about the names; file requests may fail
NextLazy ==
    \/ \E name \in CacheNames, resps \in CacheAnswers, h \in Slots :
          OpenFile(name, O_RDONLY, resps, 0, h)
    \/ \E name \in CacheNames, resps \in CacheAnswers : Stat(name, resps, 0)
    \/ \E h \in Slots : \E resps \in AnswersTo(h, TRUE, MaxReadLen, 0) :
          Read(h, MaxReadLen, resps)
    \/ \E h \in Slots : \E resps \in AnswersTo(h, FALSE, 0, SeekStart) :
          Seek(h, 0, SeekStart, resps)
    \/ \E h \in Slots : HandleStatCall(h)
    \/ \E h \in Slots : HandleReaddir(h, 1)
    \/ \E h \in Slots : HandleWrite(h)
    \/ \E h \in Slots : HandleClose(h)
    \/ \E h \in Slots : Release(h)

SpecLazy == InitCacheTime /\ [][NextLazy]_vars

-----------------------------------------------------------------------------
(* statikCache.Get called by several goroutines at once.  Each goroutine   *)
(* advances one statement at a time; calls[g] holds its position and its   *)
(* local variables, cacheLock the holders of the RWMutex.  RLock waits     *)
(* while a goroutine holds the lock by Lock; Lock waits while any          *)
(* goroutine holds it (a Lock that waits also holds back RLock in Go,      *)
(* which only delays readers).  last keeps the latest insert: the path,    *)
(* the manifest written, and in n how many inserts were made since the     *)
(* clock last moved (counted up to 2).                                     *)

GetPaths == { <<Slash>>, <<Slash, "a">> }

Idle == {g \in Goroutines : calls[g].pc = "idle"}

At(g, pc) == calls[g].pc = pc

Goto(g, pc) == calls' = [calls EXCEPT ![g].pc = pc]

\* the goroutine calls Get(path)
GetCall(g, path) ==
    /\ At(g, "idle")
    /\ calls' = [calls EXCEPT ![g] = [NoGet EXCEPT !.pc = "called",
                                                   !.path = path]]
    /\ UNCHANGED <<cache, now, openFiles, handles, hist, last, lruSize, otel,
                   loading, cacheLock>>

\* a Get that looks the path up without taking the lock
GetRLockSkipped(g) ==
    /\ At(g, "called")
    /\ Goto(g, "rlocked")
    /\ UNCHANGED <<cache, now, openFiles, handles, hist, last, lruSize, otel,
                   loading, cacheLock>>

\* m.cacheLock.RLock()
GetRLock(g) ==
    /\ At(g, "called")
    /\ cacheLock.writer = {}
    /\ cacheLock' = [cacheLock EXCEPT !.readers = @ \cup {g}]
    /\ Goto(g, "rlocked")
    /\ UNCHANGED <<cache, now, openFiles, handles, hist, last, lruSize, otel,
                   loading>>

\* cache, contentOk := m.cache[path]
GetLookup(g) ==
    /\ At(g, "rlocked")
    /\ LET path == calls[g].path
           contentOk == path \in DOMAIN cache
       IN  calls' = [calls EXCEPT
                ![g].pc = "looked",
                ![g].contentOk = contentOk,
                ![g].exp = IF contentOk THEN cache[path].exp ELSE 0,
                ![g].statik = IF contentOk THEN cache[path].statik
                              ELSE ZeroStatik]
    /\ UNCHANGED <<cache, now, openFiles, handles, hist, last, lruSize, otel,
                   loading, cacheLock>>

\* a Get that keeps the read lock while it goes on
GetRUnlockKept(g) ==
    /\ At(g, "looked")
    /\ Goto(g, "check")
    /\ UNCHANGED <<cache, now, openFiles, handles, hist, last, lruSize, otel,
                   loading, cacheLock>>

\* m.cacheLock.RUnlock()
GetRUnlock(g) ==
    /\ At(g, "looked")
    /\ cacheLock' = [cacheLock EXCEPT !.readers = @ \ {g}]
    /\ Goto(g, "check")
    /\ UNCHANGED <<cache, now, openFiles, handles, hist, last, lruSize, otel,
                   loading>>

\* if contentOk && cache.exp.After(time.Now()): return cache.statik, nil;
\* else if contentOk: on to the delete; else on to the fetch
GetCheck(g) ==
    /\ At(g, "check")
    /\ calls' = [calls EXCEPT ![g] =
                    IF calls[g].contentOk /\ calls[g].exp > now
                    THEN NoGet
                    ELSE [NoGet EXCEPT
                            !.pc = IF calls[g].contentOk THEN "expired"
                                   ELSE "miss",
                            !.path = calls[g].path]]
    /\ UNCHANGED <<cache, now, openFiles, handles, hist, last, lruSize, otel,
                   loading, cacheLock>>

\* m.cacheLock.Lock() before the delete
GetLockExpired(g) ==
    /\ At(g, "expired")
    /\ cacheLock = NoHolders
    /\ cacheLock' = [cacheLock EXCEPT !.writer = {g}]
    /\ Goto(g, "deleting")
    /\ UNCHANGED <<cache, now, openFiles, handles, hist, last, lruSize, otel,
                   loading>>

\* delete(m.cache, path)
GetDelete(g) ==
    /\ At(g, "deleting")
    /\ cache' = IF calls[g].path \in DOMAIN cache
                THEN MapRemove(cache, calls[g].path) ELSE cache
    /\ Goto(g, "deleted")
    /\ UNCHANGED <<now, openFiles, handles, hist, last, lruSize, otel, loading,
                   cacheLock>>

\* a Get that goes on to the fetch without unlocking
GetUnlockExpiredKept(g) ==
    /\ At(g, "deleted")
    /\ Goto(g, "miss")
    /\ UNCHANGED <<cache, now, openFiles, handles, hist, last, lruSize, otel,
                   loading, cacheLock>>

\* m.cacheLock.Unlock() after the delete
GetUnlockExpired(g) ==
    /\ At(g, "deleted")
    /\ cacheLock' = [cacheLock EXCEPT !.writer = @ \ {g}]
    /\ Goto(g, "miss")
    /\ UNCHANGED <<cache, now, openFiles, handles, hist, last, lruSize, otel,
                   loading>>

\* httpGet, Decode, Body.Close: any failure returns the error
GetFetch(g, resp) ==
    /\ At(g, "miss")
    /\ calls' = [calls EXCEPT ![g] =
                    IF resp.kind = "ok"
                    THEN [calls[g] EXCEPT !.pc = "fetched", !.resp = resp]
                    ELSE NoGet]
    /\ UNCHANGED <<cache, now, openFiles, handles, hist, last, lruSize, otel,
                   loading, cacheLock>>

\* m.cacheLock.Lock() before the insert
GetLockInsert(g) ==
    /\ At(g, "fetched")
    /\ cacheLock = NoHolders
    /\ cacheLock' = [cacheLock EXCEPT !.writer = {g}]
    /\ Goto(g, "inserting")
    /\ UNCHANGED <<cache, now, openFiles, handles, hist, last, lruSize, otel,
                   loading>>

\* an insert that keeps the entry another Get wrote in the meantime
GetInsertIfAbsent(g) ==
    /\ At(g, "inserting")
    /\ cache' = IF calls[g].path \in DOMAIN cache THEN cache
                ELSE MapPut(cache, calls[g].path,
                            [statik |-> calls[g].resp.statik,
                             exp |-> NewExpiry(now, now)])
    /\ Goto(g, "inserted")
    /\ last' = [NoCall EXCEPT
                  !.op = "Get", !.name = calls[g].path,
                  !.val = calls[g].resp.statik,
                  !.n = IF last.op = "Get" /\ last.name = calls[g].path
                        THEN 2 ELSE 1]
    /\ UNCHANGED <<now, openFiles, handles, hist, lruSize, otel, loading,
                   cacheLock>>

\* m.cache[path] = statikCacheEl{statik, time.Now().Add(StatikCachingTime)}
GetInsert(g) ==
    /\ At(g, "inserting")
    /\ cache' = MapPut(cache, calls[g].path,
                       [statik |-> calls[g].resp.statik,
                        exp |-> NewExpiry(now, now)])
    /\ Goto(g, "inserted")
    /\ last' = [NoCall EXCEPT
                  !.op = "Get", !.name = calls[g].path,
                  !.val = calls[g].resp.statik,
                  !.n = IF last.op = "Get" /\ last.name = calls[g].path
                        THEN 2 ELSE 1]
    /\ UNCHANGED <<now, openFiles, handles, hist, lruSize, otel, loading,
                   cacheLock>>

\* m.cacheLock.Unlock() after the insert; return statik, nil
GetUnlockReturn(g) ==
    /\ At(g, "inserted")
    /\ cacheLock' = [cacheLock EXCEPT !.writer = @ \ {g}]
    /\ calls' = [calls EXCEPT ![g] = NoGet]
    /\ UNCHANGED <<cache, now, openFiles, handles, hist, last, lruSize, otel,
                   loading>>

NextGet ==
    \/ \E g \in Goroutines, path \in GetPaths : GetCall(g, path)
    \/ \E g \in Goroutines : GetRLock(g)
    \/ \E g \in Goroutines : GetLookup(g)
    \/ \E g \in Goroutines : GetRUnlock(g)
    \/ \E g \in Goroutines : GetCheck(g)
    \/ \E g \in Goroutines : GetLockExpired(g)
    \/ \E g \in Goroutines : GetDelete(g)
    \/ \E g \in Goroutines : GetUnlockExpired(g)
    \/ \E g \in Goroutines, resp \in ManifestResponses : GetFetch(g, resp)
    \/ \E g \in Goroutines : GetLockInsert(g)
    \/ \E g \in Goroutines : GetInsert(g)
    \/ \E g \in Goroutines : GetUnlockReturn(g)
    \/ \E to \in TimePoints : Tick(to)

SpecGet == Init /\ [][NextGet]_vars

(* The same Gets of one path under a fair scheduler: a goroutine inside    *)
(* Get that can execute its next statement eventually does, every request  *)
(* to the remote is answered (with a manifest or an error), and a          *)
(* goroutine that waits for cacheLock gets it if the lock is free again    *)
(* and again (sync.RWMutex does not starve a waiter).  Calling Get and the *)
(* passing of time are not forced.                                         *)

\* a statement of Get that waits for nothing
GetRuns(g) ==
    \/ GetLookup(g)
    \/ GetRUnlock(g)
    \/ GetCheck(g)
    \/ GetDelete(g)
    \/ GetUnlockExpired(g)
    \/ GetInsert(g)
    \/ GetUnlockReturn(g)

\* the remote answers
GetAnswered(g) == \E resp \in ManifestResponses : GetFetch(g, resp)

\* a lock call of Get
GetLocks(g) ==
    \/ GetRLock(g)
    \/ GetLockExpired(g)
    \/ GetLockInsert(g)

NextGetFair ==
    \/ \E g \in Goroutines : GetCall(g, <<Slash>>)
    \/ \E g \in Goroutines : GetRuns(g)
    \/ \E g \in Goroutines : GetAnswered(g)
    \/ \E g \in Goroutines : GetLocks(g)
    \/ \E to \in TimePoints : Tick(to)

FairGet ==
    \A g \in Goroutines :
        /\ WF_vars(GetRuns(g))
        /\ WF_vars(GetAnswered(g))
        /\ SF_vars(GetLocks(g))

SpecGetFair == Init /\ [][NextGetFair]_vars /\ FairGet

-----------------------------------------------------------------------------
(* The sizes: parseSize on raw strings of every shape, and the Size of the *)
(* summaries that Stat and Readdir return for a manifest whose entries     *)
(* carry well-formed and malformed sizes.                                  *)

SizeIntParts ==
    { <<>>, <<"0">>, <<"1">>, <<"2">>, <<"3", "2">>, <<"6", "4">>,
      <<"-", "1">>, <<"1", "0", "0", "0">>, <<"x">> }

SizeFracParts ==
    { <<>>, <<".">>, <<".", "5">>, <<".", "3">>, <<".", "1">>,
      <<".", "5", ".">> }

SizeUnits == DOMAIN UnitFactors \cup { <<>>, <<"X", "B">>, <<"b">> }

\* the raw sizes a manifest may carry: a token, one space and a token, and
\* the same with no space, two spaces, a space in front
SizeRaws ==
    { i \o f \o <<Space>> \o u :
          i \in SizeIntParts, f \in SizeFracParts, u \in SizeUnits }
        \cup { <<"1">> \o f \o sep \o u :
                   f \in SizeFracParts, sep \in { <<>>, <<Space, Space>> },
                   u \in SizeUnits }
        \cup { <<Space>> \o i \o <<Space>> \o u :
                   i \in SizeIntParts, u \in SizeUnits }

\* a manifest of summaries with sizes of each kind: well-formed, an
\* unknown unit, one token, a decimal that does not parse
ManifestS ==
    Statik(DirInfo(<<"r">>, "u0", <<"4", " ", "k", "B">>, 1),
           <<DirInfo(<<"d">>, "u0/d", <<"1", " ", "X", "B">>, 1)>>,
           <<FileInfo(<<"a">>, "u1", <<"text/plain">>,
                      <<"1", ".", "5", " ", "k", "B">>, 2),
             FileInfo(<<"b">>, "u2", <<"text/plain">>, <<"1", "2">>, 2),
             FileInfo(<<"c">>, "u3", <<"text/plain">>,
                      <<"1", ",", "5", " ", "k", "B">>, 2)>>)

SizeNames ==
    { <<"/">>, <<"/", "a">>, <<"/", "b">>, <<"/", "c">>, <<"/", "d">> }

SizeAnswers == { <<>>, <<[kind |-> "ok", statik |-> ManifestS]>> }

ParseSizeCall(raw) ==
    \E r \in {parseSize(raw)} :
        /\ last' = [NoCall EXCEPT !.op = "parseSize", !.name = raw,
                                  !.err = r.err,
                                  !.val = [type |-> "int64", v |-> r.size]]
        /\ UNCHANGED <<others, cache, now, openFiles, handles, hist>>

\* the summary the caller holds: the one Stat returned (i = 0), or the
\* i-th of the list Readdir returned
HeldInfos(i) ==
    IF i = 0
    THEN IF last.op = "Stat" /\ last.err = "nil"
         THEN {IF last.val.type = "Statik" THEN last.val.v.Info
               ELSE last.val.v}
         ELSE {}
    ELSE IF last.op = "File.Readdir" /\ i \in 1..Len(last.data)
         THEN {last.data[i]}
         ELSE {}

\* StatikFileInfo.Size, StatikDirInfo.Size
SizeCall(i) ==
    \E info \in HeldInfos(i) :
        /\ last' = [NoCall EXCEPT !.op = "Size", !.name = info.SizeRaw,
                                  !.val = [type |-> "int64",
                                           v |-> parseSizeOrZero(info.SizeRaw)]]
        /\ UNCHANGED <<others, cache, now, openFiles, handles, hist>>

NextSize ==
    \/ \E raw \in SizeRaws : ParseSizeCall(raw)
    \/ \E name \in SizeNames, resps \in SizeAnswers : Stat(name, resps, 0)
    \/ \E resps \in SizeAnswers, h \in Slots :
          OpenFile(<<"/">>, O_RDONLY, resps, 0, h)
    \/ \E h \in Slots, count \in 0..2 : HandleReaddir(h, count)
    \/ \E i \in 0..4 : SizeCall(i)
    \/ \E h \in Slots : Release(h)

SpecSize == Init /\ [][NextSize]_vars

-----------------------------------------------------------------------------
(* The status of a response.  httpGet returns what httpClient.Get returns: *)
(* an error only when no response arrived, and otherwise the response with *)
(* whatever status the server gave.  Neither statikCache.Get nor           *)
(* fetchBytes reads the status; they read the body.  A response therefore  *)
(* carries its status next to what the reading of its body ends in.        *)

HttpStatuses == {200, 404, 500}

\* the answers to the GET of a file: no response, a body whose reading or
\* closing fails, or a body under a status
StatusBodies ==
    {[kind |-> "getErr", body |-> <<>>, status |-> 0]}
    \cup {[kind |-> k, body |-> <<>>, status |-> 200] :
             k \in {"readErr", "closeErr"}}
    \cup {[kind |-> "ok", body |-> b, status |-> st] :
             b \in Contents, st \in HttpStatuses}

\* what has become of response.Body when statikCache.Get returns from a
\* miss: there is none when httpGet failed; the return after a failed
\* Decode comes before the call of Close; otherwise Close was called
GetBody(resp) ==
    CASE resp.kind = "getErr" -> "none"
      [] resp.kind = "decodeErr" -> "open"
      [] OTHER -> "closed"

\* the same for resp.Body when fetchBytes returns: the return after a
\* failed ReadFrom comes before the call of Close
fetchBody(resp) ==
    CASE resp.kind = "getErr" -> "none"
      [] resp.kind = "readErr" -> "open"
      [] OTHER -> "closed"

\* the answers to the GET of a statik.json: no response, the manifest, or
\* under an error status a body that is not JSON or a JSON object without
\* the fields of a manifest, which decodes into Statik{}
StatusManifests ==
    {[kind |-> "getErr", statik |-> ZeroStatik, status |-> 0],
     [kind |-> "ok", statik |-> ManifestC, status |-> 200]}
    \cup {[kind |-> k, statik |-> ZeroStatik, status |-> st] :
             k \in {"decodeErr", "ok"}, st \in HttpStatuses \ {200}}

NextStatus ==
    \/ \E name \in CacheNames, resp \in StatusManifests, h \in Slots \cup {0} :
       \E resps \in { <<>>, <<resp>> } :
          OpenFile(name, O_RDONLY, resps, 0, h)
    \/ \E name \in CacheNames, resp \in StatusManifests :
       \E resps \in { <<>>, <<resp>> } : Stat(name, resps, 0)
    \/ \E h \in Slots, resp \in StatusBodies :
       \E resps \in { <<>>, <<resp>> } : Read(h, MaxReadLen, resps)
    \/ \E h \in Slots, resp \in StatusBodies :
       \E resps \in { <<>>, <<resp>> } : Seek(h, 0, SeekStart, resps)
    \/ \E h \in Slots : Release(h)
    \/ Tick(StatikCachingTime)

SpecStatus == InitCacheTime /\ [][NextStatus]_vars

-----------------------------------------------------------------------------
(* The listing: a caller holds in its first slot the handle of a directory *)
(* whose manifest has up to MaxListed directories and up to MaxListed      *)
(* files, and calls Readdir with counts from below zero to beyond the      *)
(* total.                                                                  *)

MaxListed == 2

ListedDirs == {DirInfo(<<n>>, "u0", "2 kB", 1) : n \in {"a", "b"}}

ListedFiles ==
    {FileInfo(<<n>>, "u1", <<"text/plain">>, "1 B", 2) : n \in {"a", "c"}}

SeqsUpTo(S, n) == UNION {[1..k -> S] : k \in 0..n}

ListedManifests ==
    {Statik(DirInfo(<<"r">>, "u0", "4 kB", 1), ds, fs) :
        ds \in SeqsUpTo(ListedDirs, MaxListed),
        fs \in SeqsUpTo(ListedFiles, MaxListed)}

ListedCounts == (0 - 1)..(2 * MaxListed + 1)

InitReaddir ==
    /\ cache = <<>>
    /\ now = 0
    /\ openFiles = <<>>
    /\ \E m \in ListedManifests :
          handles = [h \in 1..MaxHandles |->
                        IF h = 1 THEN DirHandle(m) ELSE NoHandle]
    /\ hist = [h \in 1..MaxHandles |-> NoHist]
    /\ last = NoCall
    /\ lruSize = fileCacheSize
    /\ loading = [h \in 1..MaxHandles |-> NoLoad]
    /\ calls = [g \in Goroutines |-> NoGet]
    /\ cacheLock = NoHolders
    /\ otel = [s \in Setups |-> NoSetup]

NextReaddir ==
    \/ \E h \in Slots, count \in ListedCounts : HandleReaddir(h, count)
    \/ \E h \in Slots : HandleStatCall(h)
    \/ \E h \in Slots : HandleClose(h)

SpecReaddir == InitReaddir /\ [][NextReaddir]_vars

-----------------------------------------------------------------------------
(* Two handles at once: the callers of InitCache open files of ManifestC,  *)
(* the same file or different ones, and read and seek on their handles in  *)
(* any order; each Read and Seek runs to its end before the next call.     *)

\* a file request is answered with the body yz
BodyAnswers == { <<>>, <<[kind |-> "ok", body |-> <<"y", "z">>]>> }

NextShare ==
    \/ \E name \in CacheNames, resps \in CacheAnswers, h \in Slots :
          OpenFile(name, O_RDONLY, resps, 0, h)
    \/ \E h \in Slots, resps \in BodyAnswers : Read(h, 1, resps)
    \/ \E h \in Slots, resps \in BodyAnswers : Seek(h, 0, SeekStart, resps)
    \/ \E h \in Slots : Release(h)

SpecShare == InitCache /\ [][NextShare]_vars

-----------------------------------------------------------------------------
(* Properties *)

Range(q) == {q[i] : i \in 1..Len(q)}

ErrKinds == {"getErr", "decodeErr", "closeErr"}

IsOpenRO(l) == l.op = "OpenFile" /\ l.flag = O_RDONLY

\* a call that resolves a path through the manifest cache
IsResolve(l) == IsOpenRO(l) \/ l.op = "Stat"

\* the manifest a directory request returned
ReturnedStatik(l) == IF l.op = "Stat" THEN l.val.v ELSE l.val.statik

FetchedPaths(l) == {g.path : g \in Range(Fetches(l.gets))}

\* the first Get of the call found the parent manifest
ParentOk(l) == l.gets # <<>> /\ l.gets[1].outcome \in {"hit", "ok"}

LastGet(l) == l.gets[Len(l.gets)]

NamesOf(list) == {list[i].NameRaw : i \in 1..Len(list)}

\* the first entry of list named name
FirstNamed(list, name) ==
    list[CHOOSE i \in 1..Len(list) :
            /\ list[i].NameRaw = name
            /\ \A j \in 1..(i - 1) : list[j].NameRaw # name]

\* the file summary a file handle was made from, by URL, tag and time
SameFile(hd, file) ==
    \/ hd.type = "LazyMemFile" /\ hd.info = file
    \/ /\ hd.type = "LinkFile"
       /\ hd.i.Url = file.Url /\ hd.i.Mime = file.Mime /\ hd.i.Time = file.Time

(* C1: a Get for a path whose entry expires strictly after the clock      *)
(* reading is a hit: no statik.json is requested for the path, the entry   *)
(* and its expiry stay as they are, and a directory request returns the    *)
(* cached manifest.  (now' = now: every Get of the call read the clock at  *)
(* the same moment.)                                                       *)
C1_HitStep ==
    (IsResolve(last') /\ now' = now) =>
        \A k \in DOMAIN cache :
            cache[k].exp > now =>
                /\ k \notin FetchedPaths(last')
                /\ k \in DOMAIN cache'
                /\ cache'[k] = cache[k]
                /\ (k = Dir(last'.name) /\ HasSuffixSlash(last'.name)) =>
                       /\ last'.err = "nil"
                       /\ last'.gets = GetTrace(k, FALSE, "hit")
                       /\ ReturnedStatik(last') = cache[k].statik

C1_CacheHit == [][C1_HitStep]_vars

\* a directory request served from an entry in its last minute, at a later
\* time than the insert
C1_Witness ==
    /\ IsResolve(last)
    /\ HasSuffixSlash(last.name)
    /\ last.gets = GetTrace(Dir(last.name), FALSE, "hit")
    /\ now > 0
    /\ Dir(last.name) \in DOMAIN cache
    /\ cache[Dir(last.name)].exp = now + 1

\* C2, both readings: a Get that finds its entry expired requests the
\* statik.json once; when the answer is one of inserted, the entry is
\* replaced by one that expires StatikCachingTime after the insert and the
\* replaced manifest is what a directory request returns; otherwise the
\* path is left without entry and the call fails
C2_Step(inserted) ==
    IsResolve(last') =>
        LET k == Dir(last'.name)
        IN  (k \in DOMAIN cache /\ cache[k].exp <= now) =>
                /\ last'.gets # <<>>
                /\ last'.gets[1].path = k
                /\ last'.gets[1].expired
                /\ last'.gets[1].outcome # "hit"
                /\ Cardinality({i \in 1..Len(last'.gets) :
                                   last'.gets[i].path = k}) = 1
                /\ IF last'.gets[1].outcome \in inserted
                   THEN /\ k \in DOMAIN cache'
                        /\ Len(last'.gets) = 1 =>
                               cache'[k].exp = now' + StatikCachingTime
                        /\ HasSuffixSlash(last'.name) =>
                               /\ last'.err = "nil"
                               /\ ReturnedStatik(last') = cache'[k].statik
                   ELSE /\ k \notin DOMAIN cache'
                        /\ last'.err # "nil"

(* C2 as claimed: at or after the expiry the Get removes the entry,        *)
(* fetches once, and whenever the body decodes the entry is replaced.      *)
C2_Original == [][C2_Step({"ok", "closeErr"})]_vars

(* C2 amended: at or after the expiry the Get removes the entry, fetches   *)
(* once, and replaces the entry (new manifest, expiry = insert time plus   *)
(* StatikCachingTime) when the body decodes and closes; when the fetch,    *)
(* the decode or the close fails the path stays without entry.             *)
C2_Expiry == [][C2_Step({"ok"})]_vars

\* an expired entry was replaced after a fetch that took time
C2_Witness ==
    /\ IsResolve(last)
    /\ Len(last.gets) = 1
    /\ last.gets[1].expired
    /\ last.gets[1].outcome = "ok"
    /\ now = 2 * StatikCachingTime - 1
    /\ cache[Dir(last.name)].exp = now + StatikCachingTime

(* C3: OpenFile with a flag other than O_RDONLY returns ErrPermission and  *)
(* no handle, calls no Get and leaves both caches as they are.            *)
C3_Step ==
    (last'.op = "OpenFile" /\ last'.flag # O_RDONLY) =>
        /\ last'.err = "ErrPermission"
        /\ last'.val = NoHandle
        /\ last'.gets = <<>>
        /\ cache' = cache
        /\ openFiles' = openFiles

C3_WriteModeDenied == [][C3_Step]_vars

\* a read-write open of the empty path while a manifest is cached
C3_Witness ==
    /\ last.op = "OpenFile"
    /\ last.flag = O_RDWR
    /\ last.name = <<>>
    /\ last.err = "ErrPermission"
    /\ cache # <<>>

(* C4: when the leaf is a name of the parent manifest's files and of its   *)
(* directories, OpenFile returns the handle of the first file of that name *)
(* and Stat that file's summary; only the parent's statik.json is got.     *)
C4_FilePrecedence ==
    LET k == Dir(last.name)
        leaf == Base(last.name)
    IN  ( /\ IsResolve(last)
          /\ ~HasSuffixSlash(last.name)
          /\ ParentOk(last)
          /\ leaf \in NamesOf(cache[k].statik.Files)
          /\ leaf \in NamesOf(cache[k].statik.Directories) ) =>
            LET file == FirstNamed(cache[k].statik.Files, leaf)
            IN  /\ last.err = "nil"
                /\ Len(last.gets) = 1
                /\ last.op = "OpenFile" => SameFile(last.val, file)
                /\ last.op = "Stat" =>
                       last.val = [type |-> "StatikFileInfo", v |-> file]

\* /a opened where a is a directory and two files: the first file is taken
C4_Witness ==
    /\ IsOpenRO(last)
    /\ last.name = <<"/", "a">>
    /\ ParentOk(last)
    /\ cache[<<"/">>].statik = ManifestA
    /\ last.val.type = "LazyMemFile"
    /\ last.val.info.Url = "u1"

\* C5, both readings: the leaf is a directory of the parent manifest and no
\* file; the second Get is for <parent>/<leaf>
C5_Case ==
    /\ IsOpenRO(last)
    /\ ~HasSuffixSlash(last.name)
    /\ ParentOk(last)
    /\ Base(last.name) \notin NamesOf(cache[Dir(last.name)].statik.Files)
    /\ Base(last.name) \in NamesOf(cache[Dir(last.name)].statik.Directories)

C5_Child == Clean(Dir(last.name) \o <<Slash>> \o Base(last.name))

C5_DirHandle ==
    /\ last.err = "nil"
    /\ last.val.type = "Statik"
    /\ C5_Child \in DOMAIN cache
    /\ last.val.statik = cache[C5_Child].statik

(* C5 as claimed: the call returns a directory handle for the manifest of  *)
(* <parent>/<leaf>, not NotFound.                                          *)
C5_Original == C5_Case => C5_DirHandle

(* C5 amended: the call gets the manifest of <parent>/<leaf> and returns   *)
(* it as a directory handle when that Get succeeds; when it fails the call *)
(* returns NotFound.                                                       *)
C5_DirFallback ==
    C5_Case =>
        /\ Len(last.gets) = 2
        /\ last.gets[2].path = C5_Child
        /\ IF last.gets[2].outcome \in {"hit", "ok"}
           THEN C5_DirHandle
           ELSE last.err = "ErrNotExist" /\ last.val = NoHandle

\* /a opened where a is only a directory: the manifest of /a is fetched
\* and returned
C5_Witness ==
    /\ C5_Case
    /\ last.name = <<"/", "a">>
    /\ last.gets[2].outcome = "ok"
    /\ last.val.type = "Statik"
    /\ last.val.statik # cache[<<"/">>].statik

(* C6: a read-only OpenFile one of whose Gets fails (the parent's or the   *)
(* one of the re-resolution; httpGet, decode or close error) returns       *)
(* ErrNotExist and no handle.                                              *)
C6_OpenNotFound ==
    (IsOpenRO(last) /\ last.gets # <<>> /\ LastGet(last).outcome \in ErrKinds)
        => last.err = "ErrNotExist" /\ last.val = NoHandle

\* the failure in the re-resolution, after the parent was found
C6_Witness ==
    /\ IsOpenRO(last)
    /\ Len(last.gets) = 2
    /\ last.gets[2].outcome = "closeErr"
    /\ last.err = "ErrNotExist"

(* C7: a Stat whose Get fails returns ErrNotExist.                         *)
C7_StatNotFound ==
    (last.op = "Stat" /\ last.gets # <<>> /\ LastGet(last).outcome \in ErrKinds)
        => last.err = "ErrNotExist"

\* the entry OpenFile and Stat denote is the same
SameEntry(o, s) ==
    \/ o.type = "Statik" /\ s.type = "Statik" /\ o.statik = s.v
    \/ o.type = "Statik" /\ s.type = "StatikDirInfo"
    \/ o.type \in {"LazyMemFile", "LinkFile"} /\ s.type = "StatikFileInfo"
       /\ SameFile(o, s.v)

TwoAnswersExactly == [1..2 -> ManifestResponses]

(* C8: from every state, for every path and every remote, Stat and a       *)
(* read-only OpenFile succeed together, fail with the same error, request  *)
(* the same statik.json files and denote the same entry.                   *)
C8_StatOpenAgree ==
    \A name \in AllNames, resps \in TwoAnswersExactly, dt \in Delays(now) :
        LET o == OpenFileOp(cache, now, name, O_RDONLY, resps, dt)
            s == StatOp(cache, now, name, resps, dt)
        IN  /\ o.err = s.err
            /\ Fetches(o.gets) = Fetches(s.gets)
            /\ o.err = "nil" => SameEntry(o.val, s.val)


IsLazy(hd) == hd.type = "LazyMemFile"

Populated(hd) == IsLazy(hd) /\ ~hd.reader.nil

(* C9 as claimed: over its lifetime a LazyMemFile handle requests its URL  *)
(* from the remote at most once.                                           *)
C9_Original == \A h \in Slots : IsLazy(handles[h]) => hist[h].fetches <= 1

\* a populated handle stays populated with the same bytes, and a Read or
\* Seek on it neither requests the URL nor looks it up in openFiles
C9_Step ==
    \A h \in Slots :
        Populated(handles[h]) =>
            /\ hist'[h].fetches = hist[h].fetches \/ ~IsLazy(handles'[h])
            /\ IsLazy(handles'[h]) =>
                   /\ Populated(handles'[h])
                   /\ handles'[h].reader.s = handles[h].reader.s
                   /\ hist'[h].loads = hist[h].loads
            /\ (last'.h = h /\ last'.op \in {"Read", "Seek"}) =>
                   last'.cfetched = <<>> /\ last'.looked = <<>>

\* the handle is populated exactly when one populate has succeeded, and
\* every request to the remote before that one failed
C9_Once ==
    \A h \in Slots :
        IsLazy(handles[h]) =>
            /\ hist[h].loads <= 1
            /\ (hist[h].loads = 1) <=> Populated(handles[h])
            /\ (~Populated(handles[h]) /\ last.h = h
                    /\ last.op \in {"Read", "Seek"}) => last.err # "nil"

(* C9 amended: a LazyMemFile handle is populated at most once, by the      *)
(* first Read or Seek whose populate succeeds; a Read or Seek whose        *)
(* populate fails returns the error and leaves the handle unpopulated, so  *)
(* the next one requests the URL again; once populated, every Read and     *)
(* Seek uses the handle's bytes without a request or a cache lookup.       *)
C9_PopulateOnce == []C9_Once /\ [][C9_Step]_vars

\* a fetch that failed, a second one that populated the handle, then a Read
\* served from the handle's bytes
C9_Witness ==
    \E h \in Slots :
        /\ Populated(handles[h])
        /\ hist[h].fetches = 2
        /\ hist[h].loads = 1
        /\ last.op = "Read" /\ last.h = h
        /\ last.n > 0
        /\ last.cfetched = <<>> /\ last.looked = <<>>

\* the tag of the file summary a file handle was resolved from
HandleTag(hd) ==
    IF hd.type = "LazyMemFile" THEN hd.info.Mime
    ELSE IF hd.type = "LinkFile" THEN hd.i.Mime
    ELSE <<>>

\* the name of the summary before NewLinkFile appended ".desktop"
LinkName(hd) ==
    SubSeq(hd.i.NameRaw, 1, Len(hd.i.NameRaw) - Len(DesktopSuffix))

\* a handle of a link summary is a LinkFile over the template filled with
\* the summary's name and URL, and has requested nothing
C10_LinkBody ==
    \A h \in Slots :
        HandleTag(handles[h]) = LinkMime =>
            /\ handles[h].type = "LinkFile"
            /\ handles[h].r.s = LinkContent(LinkName(handles[h]), handles[h].i.Url)
            /\ hist[h].fetches = 0

HandleOps ==
    {"Read", "Seek", "File.Stat", "File.Readdir", "File.Write", "File.Close"}

\* resolving to a link handle and every call on one: no request for a file
\* URL, no lookup in openFiles, openFiles as it was, and a Read returns the
\* bytes of the body at the read index
C10_Step ==
    /\ (last'.op = "OpenFile" /\ HandleTag(last'.val) = LinkMime) =>
           /\ openFiles' = openFiles
           /\ last'.cfetched = <<>> /\ last'.looked = <<>>
    /\ \A h \in Slots :
           ( /\ HandleTag(handles[h]) = LinkMime
             /\ last'.h = h /\ last'.op \in HandleOps ) =>
               /\ openFiles' = openFiles
               /\ last'.cfetched = <<>> /\ last'.looked = <<>>
               /\ hist' = hist
               /\ last'.op = "Read" =>
                      last'.data = SubSeq(handles[h].r.s, handles[h].r.i + 1,
                                          handles[h].r.i + last'.n)

(* C10: a file whose tag is text/statik-link resolves to a LinkFile whose  *)
(* body is the template filled with the summary's name and URL; no Read,   *)
(* Seek, Stat, Readdir, Write or Close on it requests a URL, looks one up  *)
(* in the LRU of file bodies or changes that LRU.                          *)
C10_LinkNoNetwork == []C10_LinkBody /\ [][C10_Step]_vars

\* a Read of a link handle that returned bytes while the LRU holds a body
C10_Witness ==
    \E h \in Slots :
        /\ handles[h].type = "LinkFile"
        /\ last.op = "Read" /\ last.h = h
        /\ last.n = 2
        /\ last.data = <<"\nURL=", handles[h].i.Url>>
        /\ openFiles # <<>>


-----------------------------------------------------------------------------
(* The LRU of file bodies *)

LruKeys(l) == {l[i].key : i \in 1..Len(l)}

UrlOf(hd) == hd.populate.Url

(* C11: openFiles never holds more entries than the size it was built      *)
(* with, and never two entries for one URL, whatever Reads the handles of  *)
(* the mount run, one after the other or at the same time.                 *)
C11_CapacityBound ==
    /\ Len(openFiles) <= lruSize
    /\ \A i, j \in 1..Len(openFiles) :
           openFiles[i].key = openFiles[j].key => i = j

\* the LRU is full, and two handles of one URL have both fetched it and
\* both added it
C11_Witness ==
    /\ Len(openFiles) = lruSize
    /\ \E h1, h2 \in Slots :
           /\ h1 # h2
           /\ Populated(handles[h1]) /\ Populated(handles[h2])
           /\ UrlOf(handles[h1]) = UrlOf(handles[h2])
           /\ hist[h1].fetches = 1 /\ hist[h2].fetches = 1
           /\ UrlOf(handles[h1]) \in LruKeys(openFiles)

\* the key the step touched last: the newest entry if the list changed
Touched == IF openFiles' = <<>> THEN {} ELSE {openFiles'[Len(openFiles')].key}

\* a step removes an entry only by adding a new URL to a full LRU, and then
\* removes the oldest one and no other
C12_Evicts ==
    LET gone == LruKeys(openFiles) \ LruKeys(openFiles')
        come == LruKeys(openFiles') \ LruKeys(openFiles)
    IN  gone # {} =>
            /\ Len(openFiles) = lruSize
            /\ gone = {openFiles[1].key}
            /\ Cardinality(come) = 1
            /\ come = Touched
            /\ Len(openFiles') = lruSize

\* the entries a step does not touch keep their order
C12_KeepsOrder ==
    openFiles' # openFiles =>
        \A k1, k2 \in (LruKeys(openFiles) \cap LruKeys(openFiles')) \ Touched :
            LruIndex(openFiles, k1) < LruIndex(openFiles, k2)
                => LruIndex(openFiles', k1) < LruIndex(openFiles', k2)

\* a Read served by a hit, or one that added its body, leaves its URL the
\* newest entry
C12_Promotes ==
    (last' # last /\ last'.op \in {"Read", "Seek"} /\ last'.looked # <<>>
        /\ last'.err \in {"nil", "EOF"})
        => Touched = {last'.looked[1]}

(* C12: adding a new URL to a full openFiles removes exactly one entry,    *)
(* the least recently used one; a hit makes its entry the most recently    *)
(* used, so the next eviction takes an older one.                          *)
C12_EvictionOrder == [][C12_Evicts /\ C12_KeepsOrder /\ C12_Promotes]_vars

\* the LRU is full, a hit has just moved the older entry to the newest
\* place, and another handle is fetching a URL that is not cached
C12_Witness ==
    /\ Len(openFiles) = lruSize
    /\ lruSize > 1
    /\ last.op = "Read" /\ last.cfetched = <<>> /\ last.looked # <<>>
    /\ openFiles[Len(openFiles)].key = last.looked[1]
    /\ \E h \in Slots :
           /\ loading[h].pc = "fetching"
           /\ UrlOf(handles[h]) \notin LruKeys(openFiles)

\* the step is one of those that must not touch the LRU: time passes, a
\* statik.json is dropped, fetched or refetched, a path is resolved, or the
\* fetch of a file fails
C13_Bystander ==
    \/ now' # now
    \/ cache' # cache
    \/ last' # last /\ last'.op \in {"OpenFile", "Stat"}
    \/ /\ last' # last /\ last'.op \in {"Read", "Seek"}
       /\ last'.cfetched # <<>> /\ last'.err \notin {"nil", "EOF"}

\* an entry leaves only as the oldest entry of a full LRU that gets a new URL
C13_Stays ==
    \A i \in 1..Len(openFiles) :
        \/ \E j \in 1..Len(openFiles') : openFiles'[j] = openFiles[i]
        \/ /\ i = 1
           /\ Len(openFiles) = lruSize
           /\ LruKeys(openFiles') \ LruKeys(openFiles) # {}

(* C13: an entry of openFiles is removed only by the Add of another URL to *)
(* a full LRU; the clock, the expiry or refetch of a statik.json and the   *)
(* failed fetch of a file leave every entry and its bytes as they were.    *)
C13_NoTimeExpiry ==
    [][C13_Stays /\ (C13_Bystander => openFiles' = openFiles)]_vars

\* the caching time has passed, the statik.json was refetched after it
\* expired, and a Read of a newly opened handle is served from openFiles
C13_Witness ==
    /\ now = StatikCachingTime
    /\ <<Slash>> \in DOMAIN cache
    /\ cache[<<Slash>>].exp = 2 * StatikCachingTime
    /\ last.op = "Read" /\ last.err = "nil"
    /\ last.cfetched = <<>> /\ last.looked # <<>>
    /\ last.data # <<>>

\* the bytes openFiles holds for a URL
CachedBytes(l, u) == l[LruIndex(l, u)].value

\* slot h goes from a handle without content to one with content in a step
\* that is a whole Read or Seek
HitLoads(h) ==
    /\ IsLazy(handles[h]) /\ ~Populated(handles[h])
    /\ loading[h].pc = "idle"
    /\ Populated(handles'[h])

\* slot h ends a fetch with a body
FetchLoads(h) ==
    /\ loading[h].pc = "fetching"
    /\ Populated(handles'[h])

C14_Step ==
    \A h \in Slots :
        /\ (loading[h].pc = "idle" /\ loading'[h].pc = "fetching") =>
               UrlOf(handles[h]) \notin LruKeys(openFiles)
        /\ HitLoads(h) =>
               /\ UrlOf(handles[h]) \in LruKeys(openFiles)
               /\ hist'[h].fetches = hist[h].fetches
               /\ last'.h = h /\ last'.cfetched = <<>>
               /\ handles'[h].reader.s =
                      CachedBytes(openFiles, UrlOf(handles[h]))
               /\ last'.data =
                      SubSeq(handles'[h].reader.s, 1, last'.n)
               /\ CachedBytes(openFiles', UrlOf(handles[h])) =
                      CachedBytes(openFiles, UrlOf(handles[h]))
        /\ FetchLoads(h) =>
               CachedBytes(openFiles', UrlOf(handles[h])) =
                   handles'[h].reader.s

Holders == cacheLock.readers \cup cacheLock.writer

\* goroutine g made the step
Stepped(g) == calls'[g] # calls[g]

\* a goroutine reads the map only while it holds the lock, and the map
\* changes only in a step of the goroutine that holds the lock by Lock
C15_Step ==
    /\ \A g \in Goroutines :
          (At(g, "rlocked") /\ calls'[g].pc = "looked") => g \in Holders
    /\ cache' # cache =>
          \E g \in Goroutines : cacheLock.writer = {g} /\ Stepped(g)

\* a goroutine that holds the lock by Lock is the only holder
C15_Exclusive ==
    cacheLock.writer # {} =>
        /\ Cardinality(cacheLock.writer) = 1
        /\ cacheLock.readers = {}

(* C15: under any interleaving of concurrent Gets, every read of the map   *)
(* is made by a goroutine holding cacheLock (shared or exclusive), every   *)
(* insert and delete by the goroutine holding it exclusively, and the      *)
(* exclusive holder is never accompanied by another holder.                *)
C15_LockingDiscipline == [](C15_Exclusive) /\ [][C15_Step]_vars

\* one Get has inserted and still holds the lock by Lock, while the other
\* Get, which found the same path expired, waits to delete
C15_Witness ==
    \E g1, g2 \in Goroutines :
        /\ g1 # g2
        /\ At(g1, "inserted") /\ cacheLock.writer = {g1}
        /\ At(g2, "expired") /\ calls[g2].path = calls[g1].path
        /\ calls[g1].path \in DOMAIN cache

\* no goroutine is inside Get
AllReturned == Idle = Goroutines

C16_Step ==
    \A g \in Goroutines :
        (At(g, "inserting") /\ calls'[g].pc = "inserted") =>
            /\ calls[g].path \in DOMAIN cache'
            /\ cache'[calls[g].path].statik = calls[g].resp.statik
            /\ \A q \in DOMAIN cache \ {calls[g].path} :
                   q \in DOMAIN cache' /\ cache'[q] = cache[q]

\* once the Gets have returned, the path has the manifest of the last
\* insert or no entry at all
C16_After ==
    (AllReturned /\ last.op = "Get" /\ last.name \in DOMAIN cache) =>
        cache[last.name].statik = last.val

Gets == last'.gets

\* a Get is a hit only of an entry that is there and not expired; a Get
\* whose request fails ends the call with an error and leaves its path
\* without an entry
C17_Step ==
    (last'.op \in {"OpenFile", "Stat"} /\ Gets # <<>>) =>
        /\ Gets[1].outcome = "hit" =>
               /\ Gets[1].path \in DOMAIN cache
               /\ cache[Gets[1].path].exp > now
        /\ \A i \in 1..Len(Gets) :
               Gets[i].outcome \in ErrKinds =>
                   /\ i = Len(Gets)
                   /\ last'.err # "nil"
                   /\ Gets[i].path \notin DOMAIN cache'

(* C17: a Get makes at most one request (each Get of a call has one        *)
(* outcome: a hit, or the answer to its one request); when the request,    *)
(* the decoding or the closing fails the call returns an error and the     *)
(* path has no entry afterwards, so the next Get of the path, finding no   *)
(* entry, is not a hit and requests again.                                 *)
C17_NoRetryNoNegativeCache == [][C17_Step]_vars

\* a Stat whose Get found an expired entry, deleted it, and failed to
\* decode the answer: the error is returned and the path has no entry
C17_Witness ==
    /\ last.op = "Stat"
    /\ Len(last.gets) = 1
    /\ last.gets[1].expired
    /\ last.gets[1].outcome = "decodeErr"
    /\ last.err = "error decoding statik.json"
    /\ last.gets[1].path \notin DOMAIN cache

WriteOps == {"Mkdir", "RemoveAll", "Rename"}

\* the names OpenFile and Stat are asked about before and after
ProbeNames == CacheNames \cup WriteNames

\* what OpenFile and Stat of a name return in a state of the caches, when
\* the remote would answer with resps
Resolves(c, t, name, resps) ==
    <<OpenFileOp(c, t, name, O_RDONLY, resps, 0),
      StatOp(c, t, name, resps, 0)>>

\* a Mkdir, RemoveAll or Rename returns an error, requests nothing, and
\* leaves the two caches, the clock and the handles as they were, so that
\* OpenFile and Stat of every name return what they returned before
C18_Step ==
    last'.op \in WriteOps =>
        /\ last'.err # "nil"
        /\ last'.gets = <<>> /\ last'.cfetched = <<>> /\ last'.looked = <<>>
        /\ cache' = cache /\ openFiles' = openFiles /\ now' = now
        /\ handles' = handles /\ hist' = hist
        /\ \A name \in ProbeNames, resps \in CacheAnswers :
               Resolves(cache', now', name, resps) =
                   Resolves(cache, now, name, resps)

(* C18: Mkdir, RemoveAll and Rename fail for every argument and in every   *)
(* state, make no request and change neither the Manifest Cache nor the    *)
(* Content Cache: OpenFile and Stat return the same for every path before  *)
(* and after such a call.                                                  *)
C18_WriteOpsChangeNothing == [][C18_Step]_vars

\* a Rename was refused on a mount that has a manifest and a file body
\* cached and a handle with content open
C18_Witness ==
    /\ last.op = "Rename" /\ last.err # "nil"
    /\ cache # <<>> /\ openFiles # <<>>
    /\ \E h \in Slots : Populated(handles[h])

\* an OpenFile asked for another mode than read-only
IsOpenRW == last.op = "OpenFile" /\ last.flag # O_RDONLY

(* C19 as claimed: Mkdir, RemoveAll and Rename fail with NotFound, and     *)
(* PermissionDenied comes only from an OpenFile with a mode other than     *)
(* read-only.                                                              *)
C19_Original ==
    /\ last.op \in WriteOps => last.err = "ErrNotExist"
    /\ last.err = "ErrPermission" => IsOpenRW

(* C19 amended: Mkdir fails with NotFound; RemoveAll and Rename fail with  *)
(* PermissionDenied, as does OpenFile with a mode other than read-only;    *)
(* no other filesystem-level operation produces PermissionDenied.          *)
C19_WriteErrors ==
    /\ last.op = "Mkdir" => last.err = "ErrNotExist"
    /\ last.op \in {"RemoveAll", "Rename"} => last.err = "ErrPermission"
    /\ IsOpenRW => last.err = "ErrPermission"
    /\ last.err = "ErrPermission" =>
           (IsOpenRW \/ last.op \in {"RemoveAll", "Rename"})

\* a RemoveAll was refused with PermissionDenied on a mount whose root
\* manifest is cached
C19_Witness ==
    /\ last.op = "RemoveAll" /\ last.err = "ErrPermission"
    /\ <<Slash>> \in DOMAIN cache

FileTypes == {"LinkFile", "LazyMemFile"}

\* the file summary an OpenFile that returned a file handle resolved to:
\* the first file named as the leaf in the manifest of the parent
ResolvedFile(l, c) ==
    FirstNamed(c[PathDir(l.name)].statik.Files, PathBase(l.name))

\* an OpenFile that returns a file handle returns a LinkFile when the tag
\* of the summary is text/statik-link and a LazyMemFile of that summary
\* otherwise; a handle that is held keeps its variant in every call
C20_Step ==
    /\ (last'.op = "OpenFile" /\ last'.val.type \in FileTypes) =>
           LET file == ResolvedFile(last', cache')
           IN  /\ SameFile(last'.val, file)
               /\ last'.val.type = "LinkFile" <=> file.Mime = LinkMime
               /\ last'.val.type = "LazyMemFile" <=> file.Mime # LinkMime
    /\ \A h \in Slots :
           (handles[h].type \in FileTypes /\ handles'[h].type # "nil") =>
               /\ handles'[h].type = handles[h].type
               /\ HandleTag(handles'[h]) = HandleTag(handles[h])

\* the variant of a held file handle is the one its tag selects
C20_ByTag ==
    \A h \in Slots :
        handles[h].type \in FileTypes =>
            (handles[h].type = "LinkFile" <=> HandleTag(handles[h]) = LinkMime)

(* C20: the variant of a file handle is decided when the name is resolved, *)
(* by the tag of the file summary alone: a LinkFile exactly when the tag   *)
(* is "text/statik-link", a LazyMemFile for every other tag, the empty tag *)
(* included; no later call on the handle changes it.                       *)
C20_VariantByTag == [](C20_ByTag) /\ [][C20_Step]_vars

\* a handle of a summary with an empty tag is a LazyMemFile, and still one
\* after a Read loaded its bytes
C20_Witness ==
    \E h \in Slots :
        /\ handles[h].type = "LazyMemFile"
        /\ handles[h].info.Mime = <<>>
        /\ ~handles[h].reader.nil
        /\ last.op = "Read" /\ last.h = h

\* the calls that are neither a Read nor a Seek
QuietOps ==
    {"OpenFile", "Stat", "File.Stat", "File.Close", "File.Readdir",
     "File.Write"}

\* the call of this step looked a URL up in openFiles, requested one, or
\* changed openFiles
TouchesContent ==
    \/ last'.looked # <<>> \/ last'.cfetched # <<>>
    \/ openFiles' # openFiles

(* C21 as claimed: the lookup or fetch of a LazyMemFile happens only in    *)
(* the first Read or Seek on the handle (here: never on a handle that      *)
(* already requested its URL in an earlier Read or Seek).                  *)
C21_Original ==
    [][(last'.op \in {"Read", "Seek"} /\ last'.looked # <<>>) =>
           hist[last'.h].fetches = 0]_vars

\* OpenFile, Stat and the handle's Stat, Close, Readdir and Write neither
\* look up nor request a URL and leave openFiles and the held handles as
\* they are; a new LazyMemFile has no reader; openFiles is looked up,
\* and a URL requested, only by a Read or Seek on a LazyMemFile without
\* a reader, and only for the URL of its summary
C21_Step ==
    /\ last'.op \in QuietOps =>
           /\ ~TouchesContent
           /\ hist' = hist
           /\ \A h \in Slots :
                  handles[h].type # "nil" => handles'[h] = handles[h]
           /\ (last'.op = "OpenFile" /\ IsLazy(last'.val)) =>
                  last'.val.reader.nil
    /\ TouchesContent =>
           /\ last'.op \in {"Read", "Seek"}
           /\ IsLazy(handles[last'.h])
           /\ ~Populated(handles[last'.h])
           /\ last'.looked = <<UrlOf(handles[last'.h])>>

(* C21 amended: OpenFile and Stat never request file content and never     *)
(* read or change the Content Cache; for a LazyMemFile the lookup and the  *)
(* fetch happen only inside a Read or Seek made while the handle has no    *)
(* content (the first one, and again each later one until a populate       *)
(* succeeds); Stat, Close, Readdir and Write on the handle never do it.    *)
C21_LazyPopulation == [][C21_Step]_vars

\* a Write on a handle that has no content although the body of its URL
\* is in openFiles: the handle still has none afterwards
C21_Witness ==
    \E h \in Slots :
        /\ IsLazy(handles[h]) /\ ~Populated(handles[h])
        /\ UrlOf(handles[h]) \in LruKeys(openFiles)
        /\ last.op = "File.Write" /\ last.h = h

\* the call of this step was made on a file handle (of either kind)
OnFile(op) ==
    /\ last'.op = op
    /\ last'.h \in Slots
    /\ handles[last'.h].type \in FileTypes

(* C22 as claimed: on a LazyMemFile and on a LinkFile, Write fails with    *)
(* the read-only error and Readdir with the not-a-directory error, in      *)
(* every state of the handle, without populating it and without moving     *)
(* its read index.                                                         *)
C22_WriteReadOnly ==
    [][/\ OnFile("File.Write") => last'.err = "errReadOnly"
       /\ OnFile("File.Readdir") => last'.err = "errNotADir"
       /\ (OnFile("File.Write") \/ OnFile("File.Readdir")) =>
              /\ handles' = handles
              /\ ~TouchesContent]_vars

\* what Stat of the name just opened returns (the manifest is cached)
StatAfterOpen == StatOp(cache', now', last'.name, <<>>, 0).val

\* the summary of a link handle made from the manifest entry f
LinkSummary(f) ==
    [f EXCEPT !.NameRaw = f.NameRaw \o DesktopSuffix,
              !.SizeRaw = ToString(Len(LinkContent(f.NameRaw, f.Url)))]

(* C23 as claimed: for both kinds of file handle, Stat of the handle is    *)
(* the file summary of the manifest unchanged, so that handle.Stat() after *)
(* OpenFile(path) equals Stat(path).                                       *)
C23_Original ==
    [][(last'.op = "OpenFile" /\ last'.val.type \in FileTypes) =>
           HandleStat(last'.val) = StatAfterOpen]_vars

\* the summary of a new LazyMemFile is the manifest entry, that of a new
\* LinkFile the entry with name and raw size replaced; Stat of a handle
\* returns its summary without an error, and no call changes it
C23_Step ==
    /\ (last'.op = "OpenFile" /\ IsLazy(last'.val)) =>
           HandleStat(last'.val) = StatAfterOpen
    /\ (last'.op = "OpenFile" /\ last'.val.type = "LinkFile") =>
           /\ StatAfterOpen.type = "StatikFileInfo"
           /\ HandleStat(last'.val).v = LinkSummary(StatAfterOpen.v)
           /\ HandleStat(last'.val) # StatAfterOpen
    /\ OnFile("File.Stat") =>
           /\ last'.val = HandleStat(handles[last'.h])
           /\ last'.err = "nil"
           /\ handles' = handles
    /\ \A h \in Slots :
           (handles[h].type \in FileTypes /\ handles'[h].type # "nil") =>
               HandleStat(handles'[h]) = HandleStat(handles[h])

(* C23 amended: Stat of a LazyMemFile returns the file summary of the      *)
(* manifest unchanged (name, raw size, URL, tag, time), so it equals       *)
(* Stat(path).  Stat of a LinkFile returns that summary with ".desktop"    *)
(* appended to the name and the raw size replaced by the decimal length of *)
(* the link body; URL, tag and time are those of the manifest entry.  The  *)
(* summary of a handle never changes.                                      *)
C23_HandleStat == [][C23_Step]_vars

\* Stat of a link handle returned the name with .desktop appended
C23_Witness ==
    \E h \in Slots :
        /\ handles[h].type = "LinkFile"
        /\ last.op = "File.Stat" /\ last.h = h
        /\ last.val.v.NameRaw = <<"b">> \o DesktopSuffix
        /\ last.val.v.Mime = LinkMime

\* the positions of Get between a lock call and its unlock
LockedPcs ==
    {"rlocked", "looked", "deleting", "deleted", "inserting", "inserted"}

\* goroutine g waits for the answer of the remote
InFetch(g) == At(g, "miss")

\* the next statement of a Get of goroutine g that finds its path cached
\* and not expired can be executed now
HitPathEnabled(g) ==
    /\ At(g, "called") => ENABLED GetRLock(g)
    /\ At(g, "rlocked") => ENABLED GetLookup(g)
    /\ At(g, "looked") => ENABLED GetRUnlock(g)
    /\ At(g, "check") => ENABLED GetCheck(g)

(* C24: cacheLock is held only between a lock call and its unlock, never   *)
(* while the Get waits for the remote; while one Get waits for the answer  *)
(* for a path, every statement of another Get that ends in a hit of a      *)
(* different path (RLock, lookup, RUnlock, clock check) can be executed    *)
(* without waiting for that answer.                                        *)
C24_NoLockDuringFetch ==
    /\ \A g \in Goroutines : g \in Holders <=> calls[g].pc \in LockedPcs
    /\ \A g1, g2 \in Goroutines :
           (g1 # g2 /\ InFetch(g1)) => HitPathEnabled(g2)

\* one Get waits for the remote while the other, called after it, has
\* looked up a different path under the read lock, found an entry that is
\* not expired, and is about to return it
C24_Witness ==
    \E g1, g2 \in Goroutines :
        /\ g1 # g2
        /\ InFetch(g1)
        /\ At(g2, "check")
        /\ calls[g2].path # calls[g1].path
        /\ calls[g2].contentOk /\ calls[g2].exp > now

(* C27 as claimed: under any interleaving of concurrent Gets, the delete   *)
(* of a Get removes only an entry whose expiry is not in the future.       *)
C27_OnlyExpiredDeleted ==
    [][\A p \in DOMAIN cache :
          p \notin DOMAIN cache' => cache[p].exp <= now]_vars

\* a goroutine that is not inside Get holds no lock
C30_Released == \A g \in Idle : g \notin Holders

(* C30: under a fair scheduler and a remote that answers every request,    *)
(* every Get that was called returns, whatever the other goroutine does,   *)
(* and when it has returned (with a manifest or with an error) it holds    *)
(* cacheLock neither by RLock nor by Lock.                                 *)
C30_GetReturns ==
    /\ [](C30_Released)
    /\ \A g \in Goroutines : (~At(g, "idle")) ~> At(g, "idle")

\* a Get that found its path expired waits for Lock while the other
\* goroutine holds the lock by RLock
C30_Witness ==
    \E g1, g2 \in Goroutines :
        /\ g1 # g2
        /\ At(g1, "expired")
        /\ cacheLock.readers = {g2}
        /\ calls[g2].path = calls[g1].path


\* the tokens of a raw size with one space
DecimalToken(raw) == SubSeq(raw, 1, FirstSpace(raw) - 1)

UnitToken(raw) == SubSeq(raw, FirstSpace(raw) + 1, Len(raw))

SpacesIn(raw) == Cardinality({i \in 1..Len(raw) : raw[i] = Space})

Unsigned(t) == IF t # <<>> /\ t[1] \in {"+", "-"} THEN Tail(t) ELSE t

DigitsOf(t) == SelectSeq(Unsigned(t), LAMBDA c : c # ".")

\* a decimal: an optional sign, then digits with at most one point among
\* them
IsDecimal(t) ==
    /\ Len(Unsigned(t)) - Len(DigitsOf(t)) <= 1
    /\ DigitsOf(t) # <<>>
    /\ AllDigits(DigitsOf(t))

\* the number of digits after the point
FracLen(t) ==
    LET body == Unsigned(t)
        pts == {i \in 1..Len(body) : body[i] = "."}
    IN  IF pts = {} THEN 0 ELSE Len(body) - (CHOOSE i \in pts : TRUE)

\* the table of units: the base and the power of each factor
UnitTable ==
    [u \in { <<"B">>, <<"k", "B">>, <<"M", "B">>, <<"G", "B">>, <<"T", "B">>,
             <<"k", "i", "B">>, <<"M", "i", "B">>, <<"G", "i", "B">>,
             <<"T", "i", "B">> } |->
        [base |-> IF Len(u) = 3 THEN 1000 ELSE 1024,
         power |-> CASE u[1] = "B" -> 0
                     [] u[1] = "k" -> 1
                     [] u[1] = "M" -> 2
                     [] u[1] = "G" -> 3
                     [] u[1] = "T" -> 4]]

RECURSIVE BigMulPow(_, _, _)
BigMulPow(a, base, k) ==
    IF k = 0 THEN a ELSE BigMulPow(BigMulAdd(a, base, 0), base, k - 1)

WellFormedSize(raw) ==
    /\ SpacesIn(raw) = 1
    /\ IsDecimal(DecimalToken(raw))
    /\ UnitToken(raw) \in DOMAIN UnitTable

\* the decimal times the factor of the unit, the fraction dropped
ExactSize(raw) ==
    LET t == DecimalToken(raw)
        u == UnitTable[UnitToken(raw)]
        mag == BigDiv(BigMulPow(BigOfDigits(DigitsOf(t), <<>>), u.base,
                                u.power),
                      10 ^ FracLen(t)).q
    IN  [neg |-> t[1] = "-" /\ mag # <<>>, mag |-> mag]

Raw15kB == <<"1", ".", "5", " ", "k", "B">>

Raw2kiB == <<"2", " ", "k", "i", "B">>

Raw1GB == <<"1", " ", "G", "B">>

(* C25: parseSize of a well-formed size, a decimal, one space and a unit   *)
(* of the table, returns without error the decimal times the factor of the *)
(* unit with the fraction dropped, the factors being 1024^k for B, kB, MB, *)
(* GB, TB and 1000^k for kiB, MiB, GiB, TiB.                               *)
C25_ExactProduct ==
    last.op = "parseSize" /\ WellFormedSize(last.name) =>
        /\ last.err = "nil"
        /\ last.val.v = ExactSize(last.name)

\* the three sizes the documentation gives
C25_Examples ==
    last.op = "parseSize" =>
        /\ last.name = Raw15kB =>
              last.val.v = [neg |-> FALSE, mag |-> BigOf(1536)]
        /\ last.name = Raw2kiB =>
              last.val.v = [neg |-> FALSE, mag |-> BigOf(2000)]
        /\ last.name = Raw1GB =>
              last.val.v = [neg |-> FALSE, mag |-> BigOf(1073741824)]

\* with the units whose factor is a power of 1024 the product is exact
C25_BinaryUnitsExact ==
    last.op = "parseSize" /\ WellFormedSize(last.name)
        /\ UnitTable[UnitToken(last.name)].base = 1024 =>
        /\ last.err = "nil"
        /\ last.val.v = ExactSize(last.name)

\* the entries of the manifest the sizes are read from
SizeEntries == ManifestS.Directories \o ManifestS.Files

EntryNamed(name) ==
    {i \in 1..Len(SizeEntries) : <<"/">> \o SizeEntries[i].NameRaw = name}

(* C26: parseSize fails exactly on the raw sizes that are not one decimal, *)
(* one space and one unit of the table; the Size of a summary with such a  *)
(* size is 0 and carries no error; Stat and Readdir return the summaries   *)
(* of the manifest, the malformed sizes included, without error.           *)
C26_SizeFallback ==
    /\ last.op = "parseSize" =>
          (last.err # "nil" <=> ~WellFormedSize(last.name))
    /\ last.op = "Size" /\ ~WellFormedSize(last.name) =>
          /\ last.err = "nil"
          /\ last.val = [type |-> "int64", v |-> Int64Zero]
    /\ last.op = "Stat" /\ EntryNamed(last.name) # {} =>
          /\ last.err = "nil"
          /\ \E i \in EntryNamed(last.name) : last.val.v = SizeEntries[i]
    /\ last.op = "File.Readdir" =>
          /\ last.err = "nil"
          /\ \E k \in 1..Len(SizeEntries) :
                last.data = SubSeq(SizeEntries, 1, k)

\* Size was called on the summary of d, whose size has the unit XB
C26_Witness ==
    /\ last.op = "Size"
    /\ last.name = <<"1", " ", "X", "B">>
    /\ last.val.v = Int64Zero

\* Size on a summary whose size is one token, and one whose decimal does
\* not parse
C26_WitnessOneToken ==
    last.op = "Size" /\ SpacesIn(last.name) = 0 /\ last.val.v = Int64Zero

C26_WitnessDecimal ==
    /\ last.op = "Size" /\ SpacesIn(last.name) = 1
    /\ ~IsDecimal(DecimalToken(last.name))
    /\ last.val.v = Int64Zero

\* the error a Read or Seek returns when the fetch of the body ends as resp
FetchError(resp) ==
    CASE resp.kind = "getErr" -> "httpGet error"
      [] resp.kind = "readErr" -> "ReadFrom error"
      [] resp.kind = "closeErr" -> "Close error"

FailedResponses == {r \in ContentResponses : r.kind # "ok"}

\* the Read and the Seek of the model on handle h, the fetch answered resp
AccessOf(h, isRead, resp) ==
    IF isRead THEN Read(h, MaxReadLen, <<resp>>)
    ELSE Seek(h, 0, SeekStart, <<resp>>)

(* C28: a Read or Seek on a LazyMemFile whose populate fetches the body    *)
(* and fails, at httpGet, while reading the body or at Close, returns that *)
(* error; openFiles is left as it was, with no entry for the URL and every *)
(* other entry in place, and the handle still has no reader.               *)
C28_FailedFetch ==
    [][\A h \in Slots, isRead \in BOOLEAN, resp \in FailedResponses :
          AccessOf(h, isRead, resp) =>
              /\ last'.err = FetchError(resp)
              /\ last'.n = 0 /\ last'.data = <<>>
              /\ openFiles' = openFiles
              /\ LruIndex(openFiles', handles[h].populate.Url) = 0
              /\ handles' = handles
              /\ NeedsLoad(handles'[h].reader)]_vars

\* a Read or Seek has failed at the fetch of its body while openFiles
\* holds the body of another file, and the handle has no reader
C28_Witness ==
    /\ last.op \in {"Read", "Seek"}
    /\ last.err \in {FetchError(r) : r \in FailedResponses}
    /\ last.cfetched # <<>>
    /\ openFiles # <<>>
    /\ NeedsLoad(handles[last.h].reader)

\* the same, the failure being that of the read of the body
C28_WitnessReadError ==
    /\ last.op = "Seek"
    /\ last.err = "ReadFrom error"
    /\ openFiles # <<>>

ErrorStatus(resp) == resp.status \in HttpStatuses \ {200}

\* a Read or Seek whose GET of the file is answered with an error status
\* returns an error and no byte, and openFiles is left as it was
C29_ContentStep ==
    \A h \in Slots, resp \in StatusBodies :
        /\ ErrorStatus(resp)
        /\ Read(h, MaxReadLen, <<resp>>) \/ Seek(h, 0, SeekStart, <<resp>>)
        => /\ last'.err \notin {"nil", "EOF"}
           /\ last'.data = <<>>
           /\ openFiles' = openFiles

\* an OpenFile or Stat whose GET of statik.json is answered with an error
\* status returns an error, and no manifest is cached for the directory
C29_ManifestStep ==
    \A name \in CacheNames, resp \in StatusManifests, h \in Slots \cup {0} :
        /\ ErrorStatus(resp)
        /\ OpenFile(name, O_RDONLY, <<resp>>, 0, h) \/ Stat(name, <<resp>>, 0)
        => /\ last'.err # "nil"
           /\ PathDir(name) \notin DOMAIN cache'

(* C29: a fetch answered with an error status, 404 or 500, is a failed     *)
(* fetch: the body of such a response is not put into openFiles and not    *)
(* served by Read, and the manifest decoded from such a response is not    *)
(* put into the manifest cache.                                            *)
C29_NoErrorStatusStored == [][C29_ContentStep /\ C29_ManifestStep]_vars

\* the two halves of C29 apart
C29_ContentPart == [][C29_ContentStep]_vars

C29_ManifestPart == [][C29_ManifestStep]_vars

(* C31: a top-level OpenFile makes at most one recursive call: for every   *)
(* path, every state of the manifest cache and every sequence of answers   *)
(* of the remote it makes at most two Gets, hence at most two fetches, and *)
(* when it makes two, the second call ends with the directory handle or    *)
(* with ErrNotExist.                                                       *)
C31_RecursionBounded ==
    /\ \A name \in AllNames, resps \in TwoAnswers :
          LET r == OpenFileOp(cache, now, name, O_RDONLY, resps, 0)
          IN  /\ Len(r.gets) <= 2
              /\ Len(Fetches(r.gets)) <= 2
              /\ Len(r.gets) = 2 =>
                    \/ r.err = "nil" /\ r.val.type = "Statik"
                    \/ r.err = "ErrNotExist" /\ r.val = NoHandle
    /\ last.op = "OpenFile" => Len(last.gets) <= 2

\* an OpenFile has recursed once and fetched both manifests
C31_Witness ==
    /\ last.op = "OpenFile"
    /\ Len(last.gets) = 2
    /\ Len(Fetches(last.gets)) = 2
    /\ last.err = "nil"
    /\ last.val.type = "Statik"

\* the entries of a manifest in listing order
Listing(statik) == statik.Directories \o statik.Files

\* the number of entries Readdir(count) is to return
ListedLen(statik, count) ==
    IF count <= 0 \/ count > Len(Listing(statik))
    THEN Len(Listing(statik)) ELSE count

DirSlots == {h \in Slots : handles[h].type = "Statik"}

(* C32: Readdir(count) on a directory handle returns, without error, the   *)
(* first k entries of the directories followed by the files, both in       *)
(* manifest order, k being the total when count <= 0 or count exceeds the  *)
(* total and count otherwise; no returned slot is left nil.                *)
C32_Listing ==
    /\ \A h \in DirSlots, count \in ListedCounts :
          LET st == handles[h].statik
              r == Readdir(st, count)
          IN  /\ Len(r) = ListedLen(st, count)
              /\ \A j \in 1..Len(r) : r[j] = Listing(st)[j] /\ r[j] # NoInfo
    /\ last.op = "File.Readdir" /\ last.h \in DirSlots =>
          /\ last.err = "nil"
          /\ \E count \in ListedCounts :
                last.data = SubSeq(Listing(handles[last.h].statik), 1,
                                   ListedLen(handles[last.h].statik, count))

\* a Readdir has returned a directory and a file and left entries out
C32_Witness ==
    /\ last.op = "File.Readdir"
    /\ last.h \in DirSlots
    /\ Len(handles[last.h].statik.Directories) = 2
    /\ Len(last.data) = 3
    /\ Len(last.data) < Len(Listing(handles[last.h].statik))
    /\ last.data[3] = handles[last.h].statik.Files[1]

\* a Readdir step on a directory handle: the handle is left as it was, no
\* error is returned, a count above zero on a directory with entries
\* returns entries, and a call that follows a call with the same result to
\* expect returns that result again
C33_Step ==
    \A h \in Slots, count \in ListedCounts :
        HandleReaddir(h, count) /\ h \in DirSlots =>
            /\ handles' = handles
            /\ last'.err = "nil"
            /\ count > 0 /\ Listing(handles[h].statik) # <<>> =>
                  Len(last'.data) = Min(count, Len(Listing(handles[h].statik)))
            /\ last.op = "File.Readdir" /\ last.h = h
                  /\ Len(last.data) = ListedLen(handles[h].statik, count) =>
                  last'.data = last.data

(* C33: Readdir on a directory handle keeps no cursor: a call changes      *)
(* nothing in the handle, two calls with the same count on a handle return *)
(* the same entries, and no call returns an end-of-directory error, so     *)
(* Readdir(n) with n > 0 repeated on a directory with entries returns the  *)
(* first entries every time.                                               *)
C33_Stateless == [][C33_Step]_vars

\* Readdir(1) has returned the first entry of a directory with more
C33_Witness ==
    /\ last.op = "File.Readdir"
    /\ last.h \in DirSlots
    /\ last.err = "nil"
    /\ Len(last.data) = 1
    /\ Len(Listing(handles[last.h].statik)) > 1
    /\ last.data[1] = Listing(handles[last.h].statik)[1]

\* the handles that hold a reader
PopulatedSlots == {h \in Slots : Populated(handles[h])}

\* the step is a Read or a Seek on the handle in slot h
AccessStep(h) ==
    \E resps \in BodyAnswers :
        Read(h, 1, resps) \/ Seek(h, 0, SeekStart, resps)

\* every entry of openFiles that is still there holds the bytes it held
BytesKept ==
    \A i \in 1..Len(openFiles) :
        LET j == LruIndex(openFiles', openFiles[i].key)
        IN  j # 0 => openFiles'[j].value = openFiles[i].value

C34_Step ==
    \A h \in Slots :
        AccessStep(h) =>
            /\ \A g \in Slots \ {h} : handles'[g] = handles[g]
            /\ BytesKept

(* C34: a Read or Seek on one handle leaves every other handle as it was,  *)
(* its read position and its bytes, also when the handles were populated   *)
(* from the same entry of openFiles, and leaves the bytes of every entry   *)
(* of openFiles as they were.                                              *)
C34_HandleIndependence == [][C34_Step]_vars

\* two handles of one URL hold readers at different positions, one of them
\* populated from openFiles without a fetch, and a Read or Seek was the
\* last call
C34_Witness ==
    /\ last.op \in {"Read", "Seek"}
    /\ PopulatedSlots = Slots
    /\ \A g, h \in Slots : handles[g].populate.Url = handles[h].populate.Url
    /\ \E g, h \in Slots : handles[g].reader.i # handles[h].reader.i
    /\ \E h \in Slots : hist[h].fetches = 0

\* a Read or Seek on a handle that holds a reader is the Read or Seek of
\* bytes.Reader on that reader: bytes of the handle's own buffer or EOF at
\* its end, no lookup in openFiles, no request, openFiles untouched
C35_Step ==
    \A h \in Slots :
        AccessStep(h) /\ Populated(handles[h]) =>
            LET rd == handles[h].reader
            IN  /\ last'.looked = <<>> /\ last'.cfetched = <<>>
                /\ openFiles' = openFiles
                /\ handles'[h].reader.s = rd.s
                /\ last'.op = "Seek" => last'.err = "nil"
                /\ last'.op = "Read" /\ rd.i < Len(rd.s) =>
                      /\ last'.err = "nil"
                      /\ last'.data = SubSeq(rd.s, rd.i + 1, rd.i + last'.n)
                      /\ last'.n > 0
                /\ last'.op = "Read" /\ rd.i >= Len(rd.s) =>
                      last'.err = "EOF" /\ last'.n = 0

(* C35: once a LazyMemFile handle holds a reader, every later Read and     *)
(* Seek on it is served from the handle's own bytes, the same bytes each   *)
(* time, without a lookup in openFiles and without a request, whether or   *)
(* not openFiles still has an entry for the URL; a Read at the end of the  *)
(* bytes returns EOF as bytes.Reader does.                                 *)
C35_OutlivesEntry == [][C35_Step]_vars

\* a Read has returned bytes from a handle whose URL is no longer in
\* openFiles
C35_Witness ==
    /\ last.op = "Read" /\ last.err = "nil" /\ last.data # <<>>
    /\ last.h \in PopulatedSlots
    /\ last.cfetched = <<>> /\ last.looked = <<>>
    /\ LruIndex(openFiles, handles[last.h].populate.Url) = 0
    /\ Len(openFiles) = lruSize

\* the manifest fetches of OpenFile and Stat leave no body open
C36_ManifestStep ==
    \A name \in CacheNames, resp \in StatusManifests, h \in Slots \cup {0} :
        OpenFile(name, O_RDONLY, <<resp>>, 0, h) \/ Stat(name, <<resp>>, 0)
        => GetBody(resp) # "open"

\* the content fetches of Read and Seek leave no body open
C36_ContentStep ==
    \A h \in Slots, resp \in StatusBodies :
        Read(h, MaxReadLen, <<resp>>) \/ Seek(h, 0, SeekStart, <<resp>>)
        => fetchBody(resp) # "open"

(* C36: the body of every response a manifest fetch or a content fetch     *)
(* obtained has been closed when the call that fetched returns, whether    *)
(* the fetch succeeded or failed in decoding or in reading the body.       *)
C36_BodiesClosed == [][C36_ManifestStep /\ C36_ContentStep]_vars

\* the two halves of C36 apart
C36_ManifestPart == [][C36_ManifestStep]_vars

C36_ContentPart == [][C36_ContentStep]_vars

\* the manifest of the root is cached and fresh: an OpenFile of a name in
\* the root is resolved without a request
RootCached == CacheHit(cache, <<Slash>>, now)

\* the file entry e of the root, opened by the name Readdir lists it with:
\* the OpenFile succeeds, the handle's Stat reports the listed name, and
\* an OpenFile of the reported name returns a handle on the same entry
ResolvesBack(e) ==
    LET r == OpenFileOp(cache, now, <<Slash>> \o e.NameRaw, O_RDONLY, <<>>, 0)
    IN  /\ r.err = "nil"
        /\ r.val.type \in {"LazyMemFile", "LinkFile"}
        /\ HandleStat(r.val).v.NameRaw = e.NameRaw
        /\ LET back == OpenFileOp(cache, now,
                                  <<Slash>> \o HandleStat(r.val).v.NameRaw,
                                  O_RDONLY, <<>>, 0)
           IN  back.err = "nil" /\ back.val = r.val

(* C37: every file that Readdir lists in a directory is opened by a        *)
(* read-only OpenFile of its listed name, the Stat of the handle reports   *)
(* that name, and the reported name is resolved by OpenFile to the same    *)
(* entry again, for LazyMemFile and for LinkFile handles.                  *)
C37_ListedNamesResolve ==
    RootCached =>
        \A e \in {f \in Range(Readdir(cache[<<Slash>>].statik, 0)) :
                     "Mime" \in DOMAIN f} : ResolvesBack(e)

\* C37 for the entries that are not links
C37_LazyPart ==
    RootCached =>
        \A e \in {f \in Range(Readdir(cache[<<Slash>>].statik, 0)) :
                     "Mime" \in DOMAIN f /\ f.Mime # LinkMime} :
            ResolvesBack(e)

\* a LazyMemFile handle opened from the cached root is held
C37_LazyWitness ==
    /\ RootCached
    /\ \E h \in Slots : handles[h].type = "LazyMemFile"
    /\ last.op = "File.Stat"


-----------------------------------------------------------------------------
(* The StatikFs revision without expiry: getOrCacheStatik and cacheStatik  *)
(* called by several goroutines at once.  cache maps a path to its         *)
(* manifest (the exp field of the entries stays 0), calls[g] holds the     *)
(* position of goroutine g and its local variables.  An access of the map  *)
(* takes time: it begins in one step and ends in another, so two accesses  *)
(* may be in progress together.  A read of the map that is in progress     *)
(* together with a write is a data race: the Go runtime may stop the       *)
(* program ("concurrent map read and map write"), or the read returns with *)
(* or without the entry.                                                   *)

\* the answers to http.Get followed by Decode: nothing closes the body here
StatikFsResponses == {r \in ManifestResponses : r.kind # "closeErr"}

\* the positions where a goroutine is reading the map, and writing it
MapReadPcs == {"looking", "checking", "raced"}
MapWritePcs == {"writing"}

\* another goroutine is writing the map
WriteInProgress(g) ==
    \E w \in Goroutines \ {g} : calls[w].pc \in MapWritePcs

\* the runtime stops the program: no goroutine goes on
Fatal == [g \in Goroutines |-> [NoGet EXCEPT !.pc = "fatal"]]

\* the goroutine calls getOrCacheStatik(path)
getOrCacheStatikCall(g, path) ==
    /\ At(g, "idle")
    /\ calls' = [calls EXCEPT ![g] = [NoGet EXCEPT !.pc = "called",
                                                   !.path = path]]
    /\ UNCHANGED <<cache, now, openFiles, handles, hist, last, lruSize, otel,
                   loading, cacheLock>>

\* m.cacheLock.RLock()
getOrCacheStatikRLock(g) ==
    /\ At(g, "called")
    /\ cacheLock.writer = {}
    /\ cacheLock' = [cacheLock EXCEPT !.readers = @ \cup {g}]
    /\ Goto(g, "looking")
    /\ UNCHANGED <<cache, now, openFiles, handles, hist, last, lruSize, otel,
                   loading>>

\* statik, ok := m.cache[path]
getOrCacheStatikLookup(g) ==
    /\ At(g, "looking")
    /\ LET path == calls[g].path
           ok == path \in DOMAIN cache
       IN  calls' = [calls EXCEPT
                ![g].pc = "looked",
                ![g].contentOk = ok,
                ![g].statik = IF ok THEN cache[path].statik
                              ELSE ZeroStatik]
    /\ UNCHANGED <<cache, now, openFiles, handles, hist, last, lruSize, otel,
                   loading, cacheLock>>

\* m.cacheLock.RUnlock(); if ok return statik, nil, else cacheStatik(path)
getOrCacheStatikRUnlock(g) ==
    /\ At(g, "looked")
    /\ cacheLock' = [cacheLock EXCEPT !.readers = @ \ {g}]
    /\ calls' = [calls EXCEPT ![g] =
                    IF calls[g].contentOk THEN NoGet
                    ELSE [calls[g] EXCEPT !.pc = "cacheStatik"]]
    /\ UNCHANGED <<cache, now, openFiles, handles, hist, last, lruSize, otel,
                   loading>>

\* cache, ok := m.cache[path] begins: cacheStatik holds no lock here
cacheStatikCheck(g) ==
    /\ At(g, "cacheStatik")
    /\ Goto(g, IF WriteInProgress(g) THEN "raced" ELSE "checking")
    /\ UNCHANGED <<cache, now, openFiles, handles, hist, last, lruSize, otel,
                   loading, cacheLock>>

\* the read ends, no write came in between: if ok return cache, nil
cacheStatikChecked(g) ==
    /\ At(g, "checking")
    /\ calls' = [calls EXCEPT ![g] =
                    IF calls[g].path \in DOMAIN cache THEN NoGet
                    ELSE [calls[g] EXCEPT !.pc = "missed"]]
    /\ UNCHANGED <<cache, now, openFiles, handles, hist, last, lruSize, otel,
                   loading, cacheLock>>

\* the read ran together with a write: it finds the entry, or it does not
cacheStatikRaced(g, ok) ==
    /\ At(g, "raced")
    /\ calls' = [calls EXCEPT ![g] =
                    IF ok THEN NoGet
                    ELSE [calls[g] EXCEPT !.pc = "missed"]]
    /\ UNCHANGED <<cache, now, openFiles, handles, hist, last, lruSize, otel,
                   loading, cacheLock>>

\* the read ran together with a write and the runtime noticed
cacheStatikFatal(g) ==
    /\ At(g, "raced")
    /\ calls' = Fatal
    /\ UNCHANGED <<cache, now, openFiles, handles, hist, last, lruSize, otel,
                   loading, cacheLock>>

\* http.Get(m.base + path + "/statik.json") and Decode(&statik)
cacheStatikFetch(g, resp) ==
    /\ At(g, "missed")
    /\ calls' = [calls EXCEPT ![g] =
                    IF resp.kind = "ok"
                    THEN [calls[g] EXCEPT !.pc = "fetched", !.resp = resp]
                    ELSE NoGet]
    /\ UNCHANGED <<cache, now, openFiles, handles, hist, last, lruSize, otel,
                   loading, cacheLock>>

\* m.cacheLock.Lock()
cacheStatikLock(g) ==
    /\ At(g, "fetched")
    /\ cacheLock = NoHolders
    /\ cacheLock' = [cacheLock EXCEPT !.writer = {g}]
    /\ Goto(g, "locked")
    /\ UNCHANGED <<cache, now, openFiles, handles, hist, last, lruSize, otel,
                   loading>>

\* m.cache[path] = statik begins; the reads in progress now race with it
cacheStatikWrite(g) ==
    /\ At(g, "locked")
    /\ calls' = [x \in Goroutines |->
                    IF x = g THEN [calls[x] EXCEPT !.pc = "writing"]
                    ELSE IF calls[x].pc = "checking"
                         THEN [calls[x] EXCEPT !.pc = "raced"]
                         ELSE calls[x]]
    /\ UNCHANGED <<cache, now, openFiles, handles, hist, last, lruSize, otel,
                   loading, cacheLock>>

\* the write ends: the map holds the manifest
cacheStatikWritten(g) ==
    /\ At(g, "writing")
    /\ cache' = MapPut(cache, calls[g].path,
                       [statik |-> calls[g].resp.statik, exp |-> 0])
    /\ Goto(g, "written")
    /\ last' = [NoCall EXCEPT !.op = "cacheStatik", !.name = calls[g].path,
                              !.val = calls[g].resp.statik]
    /\ UNCHANGED <<now, openFiles, handles, hist, lruSize, otel, loading,
                   cacheLock>>

\* m.cacheLock.Unlock(); return statik, nil
cacheStatikUnlock(g) ==
    /\ At(g, "written")
    /\ cacheLock' = [cacheLock EXCEPT !.writer = @ \ {g}]
    /\ calls' = [calls EXCEPT ![g] = NoGet]
    /\ UNCHANGED <<cache, now, openFiles, handles, hist, last, lruSize, otel,
                   loading>>

NextStatikFs ==
    \/ \E g \in Goroutines, path \in GetPaths : getOrCacheStatikCall(g, path)
    \/ \E g \in Goroutines : getOrCacheStatikRLock(g)
    \/ \E g \in Goroutines : getOrCacheStatikLookup(g)
    \/ \E g \in Goroutines : getOrCacheStatikRUnlock(g)
    \/ \E g \in Goroutines : cacheStatikCheck(g)
    \/ \E g \in Goroutines : cacheStatikChecked(g)
    \/ \E g \in Goroutines, ok \in BOOLEAN : cacheStatikRaced(g, ok)
    \/ \E g \in Goroutines : cacheStatikFatal(g)
    \/ \E g \in Goroutines, resp \in StatikFsResponses :
            cacheStatikFetch(g, resp)
    \/ \E g \in Goroutines : cacheStatikLock(g)
    \/ \E g \in Goroutines : cacheStatikWrite(g)
    \/ \E g \in Goroutines : cacheStatikWritten(g)
    \/ \E g \in Goroutines : cacheStatikUnlock(g)

SpecStatikFs == Init /\ [][NextStatikFs]_vars

(***************************************************************************)
(* C38: in the StatikFs revision without expiry, every read and every      *)
(* write of the cache map is made by a goroutine that holds cacheLock, so  *)
(* no read of the map is in progress together with a write of it.          *)
(***************************************************************************)
MapAccessPcs == MapReadPcs \cup MapWritePcs

C38_MapUnderLock ==
    /\ \A g \in Goroutines : calls[g].pc \in MapAccessPcs => g \in Holders
    /\ \A r, w \in Goroutines :
            ~(calls[r].pc \in MapReadPcs /\ calls[w].pc \in MapWritePcs)

\* what does hold: the reads of getOrCacheStatik and the writes are locked
C38_LockedPart ==
    /\ \A g \in Goroutines :
            calls[g].pc = "looking" => g \in cacheLock.readers
    /\ \A g \in Goroutines :
            calls[g].pc \in MapWritePcs => cacheLock.writer = {g}
    /\ \A r, w \in Goroutines :
            ~(calls[r].pc = "looking" /\ calls[w].pc \in MapWritePcs)

\* the second half of the claim alone: no read together with a write
C38_NoOverlap ==
    \A r, w \in Goroutines :
        ~(calls[r].pc \in MapReadPcs /\ calls[w].pc \in MapWritePcs)

C38_LockedWitness ==
    \E r, w \in Goroutines :
        /\ calls[r].pc = "called"
        /\ calls[w].pc \in MapWritePcs


-----------------------------------------------------------------------------
(* telemetry.SetupOTelSDK and the shutdown closure it returns.  otel[s] is *)
(* the state of one call of SetupOTelSDK: its position, the shutdownFuncs  *)
(* its closures share, and the named result err.                           *)

\* errors.Join of two errors: the nil ones are dropped, nil if none is left
ErrorsJoin(a, b) == a \o b

\* what the cleanups answer: nil or an error, for each of them
CleanupErrors == [Cleanups -> {<<>>, <<"shutdown failed">>}]
ResourceErrors == {<<>>, <<"resource">>}
ProviderErrors == {<<>>, <<"provider">>}

\* for _, fn := range shutdownFuncs { err = errors.Join(err, fn(ctx)) }
RECURSIVE RunFuncs(_, _, _)
RunFuncs(funcs, o, errOf) ==
    IF funcs = <<>> THEN o
    ELSE RunFuncs(Tail(funcs),
                  [o EXCEPT !.ret = ErrorsJoin(@, errOf[Head(funcs)]),
                            !.invoked[Head(funcs)] = @ + 1],
                  errOf)

\* a shutdown that leaves shutdownFuncs as it is
shutdownKeepFuncs(o, errOf) ==
    RunFuncs(o.shutdownFuncs, [o EXCEPT !.ret = <<>>], errOf)

\* shutdown: call every registered cleanup, shutdownFuncs = nil, return err
shutdown(o, errOf) ==
    [RunFuncs(o.shutdownFuncs, [o EXCEPT !.ret = <<>>], errOf)
        EXCEPT !.shutdownFuncs = <<>>]

\* handleErr: err = errors.Join(inErr, shutdown(ctx))
handleErr(o, inErr, errOf) ==
    LET after == shutdown(o, errOf)
    IN  [after EXCEPT !.err = ErrorsJoin(inErr, after.ret)]

\* res, err := resource.Merge(...); if err != nil { handleErr(err); return }
SetupResource(s, inErr, errOf) ==
    /\ otel[s].pc = "start"
    /\ otel' = [otel EXCEPT ![s] =
                    IF inErr # <<>>
                    THEN [handleErr(otel[s], inErr, errOf)
                            EXCEPT !.pc = "returned"]
                    ELSE [otel[s] EXCEPT !.pc = "resource"]]
    /\ UNCHANGED <<cache, now, openFiles, handles, hist, last, lruSize,
                   loading, calls, cacheLock>>

\* tracerProvider, err := newTraceProvider(...); on an error handleErr and
\* return, else append tracerProvider.Shutdown to shutdownFuncs and return
SetupTraceProvider(s, inErr, errOf) ==
    /\ otel[s].pc = "resource"
    /\ otel' = [otel EXCEPT ![s] =
                    IF inErr # <<>>
                    THEN [handleErr(otel[s], inErr, errOf)
                            EXCEPT !.pc = "returned"]
                    ELSE [otel[s] EXCEPT
                            !.pc = "returned",
                            !.err = <<>>,
                            !.shutdownFuncs =
                                Append(@, "tracerProvider.Shutdown"),
                            !.registered =
                                Append(@, "tracerProvider.Shutdown")]]
    /\ UNCHANGED <<cache, now, openFiles, handles, hist, last, lruSize,
                   loading, calls, cacheLock>>

\* the caller calls the shutdown that SetupOTelSDK returned
ShutdownCall(s, errOf) ==
    /\ otel[s].pc = "returned"
    /\ otel[s].n < MaxShutdowns
    /\ otel' = [otel EXCEPT ![s] = [shutdown(otel[s], errOf)
                                        EXCEPT !.n = @ + 1]]
    /\ UNCHANGED <<cache, now, openFiles, handles, hist, last, lruSize,
                   loading, calls, cacheLock>>

NextTelemetry ==
    \/ \E s \in Setups, inErr \in ResourceErrors, errOf \in CleanupErrors :
            SetupResource(s, inErr, errOf)
    \/ \E s \in Setups, inErr \in ProviderErrors, errOf \in CleanupErrors :
            SetupTraceProvider(s, inErr, errOf)
    \/ \E s \in Setups, errOf \in CleanupErrors : ShutdownCall(s, errOf)

SpecTelemetry == Init /\ [][NextTelemetry]_vars

(***************************************************************************)
(* C39: the shutdown of the telemetry invokes each registered cleanup      *)
(* exactly once.  The first call of the returned shutdown calls every      *)
(* registered cleanup once and returns their errors joined; every later    *)
(* call, the caller's call after the one handleErr made on a failed setup  *)
(* included, invokes no cleanup and returns nil.                           *)
(***************************************************************************)
RECURSIVE JoinAll(_, _)
JoinAll(funcs, errOf) ==
    IF funcs = <<>> THEN <<>>
    ELSE ErrorsJoin(errOf[Head(funcs)], JoinAll(Tail(funcs), errOf))

InSeq(c, funcs) == \E i \in 1..Len(funcs) : funcs[i] = c

\* at any time: no cleanup was invoked twice, none that was not registered,
\* and after a call of shutdown every registered one was invoked
C39_Invoked ==
    \A s \in Setups, c \in Cleanups :
        /\ otel[s].invoked[c] <= 1
        /\ ~InSeq(c, otel[s].registered) => otel[s].invoked[c] = 0
        /\ otel[s].n >= 1 /\ InSeq(c, otel[s].registered) =>
                otel[s].invoked[c] = 1

\* one call of the returned shutdown
C39_Step ==
    \A s \in Setups, errOf \in CleanupErrors :
        ShutdownCall(s, errOf) =>
            IF otel[s].n = 0
            THEN /\ \A c \in Cleanups :
                        otel'[s].invoked[c] =
                            IF InSeq(c, otel[s].registered) THEN 1 ELSE 0
                 /\ otel'[s].ret = JoinAll(otel[s].registered, errOf)
            ELSE /\ otel'[s].invoked = otel[s].invoked
                 /\ otel'[s].ret = <<>>

C39_ExactlyOnce == []C39_Invoked /\ [][C39_Step]_vars

\* a second call of shutdown after a setup that registered its cleanup
C39_Witness ==
    \E s \in Setups :
        /\ otel[s].n >= 2
        /\ otel[s].err = <<>>
        /\ otel[s].registered # <<>>
        /\ \A c \in Cleanups : otel[s].invoked[c] = 1

\* the caller's own call after handleErr called shutdown on a failed setup
C39_WitnessFailed ==
    \E s \in Setups :
        /\ otel[s].n >= 1
        /\ otel[s].err # <<>>
        /\ \A c \in Cleanups : otel[s].invoked[c] = 0

=============================================================================
